---- MODULE Spec2Model ----
(***************************************************************************)
(* Run execution pipeline of the Beehus scraping platform:                 *)
(*   - the Selenium slot pool kept in Redis        (core/tasks.py)         *)
(*   - the scrape_task Celery task                 (core/tasks.py)         *)
(*   - the run lifecycle API: trigger, retry, stop (app/console/routers)   *)
(*   - the stale-run sweep                         (core/tasks.py)         *)
(*   - the file-processing sub-state machine       (core/services)         *)
(*                                                                         *)
(* Every await on MongoDB or Redis is one atomic step.  A log push that    *)
(* directly follows another database write of the same coroutine, with no  *)
(* slow call in between, is taken in the same step as that write.  The     *)
(* list Run.logs is kept as the set of its lines: every line carries its   *)
(* writer, the order of the lines is not recorded.                         *)
(***************************************************************************)
EXTENDS Integers, Sequences, FiniteSets, TLC

(***************************************************************************)
(* Bounds of the model                                                     *)
(***************************************************************************)
\* Size N of the slot pool (a deployment setting, tasks.py:27-31).
SELENIUM_MAX_SLOTS == 2
\* Run documents the sweep specification starts with.
MaxRuns == 2
\* Celery task ids that trigger_run / retry_run may mint for one run.
MaxTasks == 2
\* API requests in flight at the same time.
MaxReqs == 2
\* API requests admitted in one behaviour.
MaxCalls == 2
\* Concurrent instances of the periodic sweep.
MaxSweeps == 1
\* Minutes the clock advances in the sweep specification.
MaxTime == 2

\* Thresholds of the sweep and period of the heartbeat, in minutes.
ZombieMinutes == 5
QueueMinutes == 60
HeartbeatMinutes == 1

\* Absent values: None for a string, for a number (id, token, time), for a
\* document and for a pending write.
NULL == "null"
NoId == 0
NoToken == -1
NoTime == -1
NoDoc == [status |-> "absent"]
NoWrite == [processing_status |-> "none"]
NoCall == [op |-> "none"]

Max(a, b) == IF a >= b THEN a ELSE b

\* The slot specification runs N+1 tasks, one per run.
SlotTasks == 1..(SELENIUM_MAX_SLOTS + 1)
RunIds == 1..Max(SELENIUM_MAX_SLOTS + 1, MaxRuns)
TaskIds == 1..Max(SELENIUM_MAX_SLOTS + 1, MaxTasks)
\* API handler instances, and one processing actor per task (post-scrape).
ReqIds == 1..MaxReqs
TaskActor(t) == MaxReqs + t
Actors == ReqIds \cup {TaskActor(t) : t \in TaskIds}
SweepIds == 1..MaxSweeps
SweepRuns == 1..MaxRuns

VARIABLES
    now,          \* wall clock, minutes
    runs,         \* Mongo collection "runs": run id -> document, NoDoc when absent
    job,          \* the Job document the runs belong to
    slotInitKey,  \* Redis key selenium:slots:initialized is set
    slotList,     \* Redis list selenium:slots, head (left) first
    tasks,        \* Celery scrape_task instances by task id
    revoked,      \* task ids revoked through celery_app.control.revoke
    channel,      \* message published on run_updates by the current step
    acts,         \* API handler instances and post-scrape processing actors
    portal,       \* filenames the connector downloads from the portal
    missing,      \* listed files that are no longer in the artifacts directory
    call,         \* arguments and result of the service function under study
    sweeps,       \* cleanup_stale_runs instances
    hist          \* history: requests admitted, tasks cancelled while queued,
                  \* processor executions started, output files produced,
                  \* time of the last retry of each run, output of the last
                  \* append_processed_to_run

vars == <<now, runs, job, slotInitKey, slotList, tasks, revoked, channel, acts, portal,
          missing, call, sweeps, hist>>

\* One more API request has been admitted.
Admit(h) == [h EXCEPT !.calls = @ + 1]

\* The API still takes requests.
CanCall == hist.calls < MaxCalls

(***************************************************************************)
(* Documents                                                               *)
(***************************************************************************)
\* Run(job_id=..., status="queued") with the defaults of the model class.
NewRun(t) ==
    [ status            |-> "queued",
      attempt           |-> 1,
      celery_task_id    |-> NoId,
      error_summary     |-> NULL,
      logs              |-> {},
      started_at        |-> NoTime,
      finished_at       |-> NoTime,
      created_at        |-> t,
      updated_at        |-> t,
      files             |-> << >>,
      processing_status |-> "not_required",
      selected_filename |-> NULL,
      selected_sheet    |-> NULL,
      processing_error  |-> NULL ]

\* {"$set": upd} on one document.
SetFields(doc, upd) ==
    [k \in DOMAIN doc |-> IF k \in DOMAIN upd THEN upd[k] ELSE doc[k]]

\* run.update({"$set": upd}) : a targeted update of the stored document.
UpdateRun(rs, r, upd) ==
    IF rs[r] = NoDoc THEN rs ELSE [rs EXCEPT ![r] = SetFields(@, upd)]

\* A log line: who wrote it (a task id, NoId for the API and the sweep) and
\* its text.  Run.logs is kept as the set of its lines.
Line(t, text) == [by |-> t, text |-> text]

\* run.update({"$push": {"logs": line}})
PushLog(rs, r, line) ==
    IF rs[r] = NoDoc THEN rs ELSE [rs EXCEPT ![r].logs = @ \cup {line}]

\* The fields save_run_status writes for a target status.
StatusUpdate(status, error, t) ==
    LET base == [status |-> status, updated_at |-> t]
        err  == IF error # NULL THEN [error_summary |-> error] ELSE << >>
        ts   == IF status = "running" THEN [started_at |-> t]
                ELSE IF status \in {"success", "failed"} THEN [finished_at |-> t]
                ELSE << >>
    IN  base @@ err @@ ts

\* RunRepository.save_run_status: update_one by id with $set.
save_run_status(rs, r, status, error, t) ==
    UpdateRun(rs, r, StatusUpdate(status, error, t))

\* The message save_run_status publishes when the update matched a document.
StatusEvent(rs, r, status) ==
    IF rs[r] = NoDoc THEN {} ELSE {[run_id |-> r, status |-> status]}

(***************************************************************************)
(* Redis slot pool                                                         *)
(***************************************************************************)
Range(s) == {s[i] : i \in DOMAIN s}

\* tokens = [f"slot-{i}" for i in range(SELENIUM_MAX_SLOTS)]
SlotTokens == [i \in 1..SELENIUM_MAX_SLOTS |-> i - 1]

\* redis.setnx(SELENIUM_SLOT_INIT_KEY, "1"): TRUE when the key was absent.
Setnx_Always(key) == TRUE
Setnx(key) == ~key

\* redis.rpush(key, *tokens)
Rpush(list, toks) == list \o toks

\* redis.lpush(key, token)
Lpush(list, tok) == <<tok>> \o list

\* redis.brpop(key): the element at the right end, and the list without it.
BrpopToken(list) == list[Len(list)]
BrpopRest_Keep(list) == list
BrpopRest(list) == SubSeq(list, 1, Len(list) - 1)

(***************************************************************************)
(* scrape_task                                                             *)
(***************************************************************************)
NoTask ==
    [ pc |-> "none", run |-> NoId, slot_token |-> NoToken, released |-> FALSE,
      hb |-> NoTime, raised |-> FALSE, result |-> NULL ]

\* scrape_task.delay(run_id=r): a fresh task waiting in the broker queue.
QueuedTask(r) == [NoTask EXCEPT !.pc = "queued", !.run = r]

\* use_local = "jpmorgan" in connector_name.lower()
UseLocal == job.connector = "jpmorgan"

\* ConnectorRegistry.get_connector raises ValueError for an unknown name.
ConnectorKnown == job.connector # "unknown"

\* Positions at which a task has ended.
Ended == {"done", "failed", "discarded", "killed"}

SlotVars == <<slotInitKey, slotList>>

\* The worker picks the task up: Run.get, Job.get, credential injection.
TaskStart(t) ==
    /\ tasks[t].pc = "queued"
    /\ t \notin revoked
    /\ LET r == tasks[t].run IN
         IF runs[r] = NoDoc
         THEN /\ tasks' = [tasks EXCEPT ![t].pc = "done"]
              /\ runs' = runs
         ELSE /\ tasks' = [tasks EXCEPT ![t].pc = "set_running"]
              /\ runs' = PushLog(runs, r, Line(t, "no_credential"))
    /\ channel' = {}
    /\ UNCHANGED <<now, job, SlotVars, revoked, acts, portal, missing, call, sweeps, hist>>

\* save_run_status(running), first log line, heartbeat started.
TaskSetRunning(t) ==
    /\ tasks[t].pc = "set_running"
    /\ LET r == tasks[t].run IN
         /\ runs' = PushLog(save_run_status(runs, r, "running", NULL, now), r, Line(t, "starting"))
         /\ channel' = StatusEvent(runs, r, "running")
    /\ tasks' = [tasks EXCEPT ![t].hb = now,
                              ![t].pc = IF ConnectorKnown THEN "acquire" ELSE "no_connector"]
    /\ UNCHANGED <<now, job, SlotVars, revoked, acts, portal, missing, call, sweeps, hist>>

\* except ValueError: the connector is not registered.
TaskConnectorMissing(t) ==
    /\ tasks[t].pc = "no_connector"
    /\ LET r == tasks[t].run IN
         /\ runs' = save_run_status(PushLog(runs, r, Line(t, "connector_missing")), r,
                                    "failed", "connector_not_found", now)
         /\ channel' = StatusEvent(runs, r, "failed")
    /\ tasks' = [tasks EXCEPT ![t].hb = NoTime, ![t].pc = "done"]
    /\ UNCHANGED <<now, job, SlotVars, revoked, acts, portal, missing, call, sweeps, hist>>

\* use_local: no slot is taken.
TaskAcquireSkip(t) ==
    /\ tasks[t].pc = "acquire"
    /\ UseLocal
    /\ tasks' = [tasks EXCEPT ![t].pc = "open"]
    /\ channel' = {}
    /\ UNCHANGED <<now, runs, job, SlotVars, revoked, acts, portal, missing, call, sweeps, hist>>

\* _ensure_selenium_slots: SETNX of the init key.
TaskEnsureSetnx(t) ==
    /\ tasks[t].pc = "acquire"
    /\ ~UseLocal
    /\ tasks' = [tasks EXCEPT ![t].pc = IF Setnx(slotInitKey) THEN "ensure_delete" ELSE "brpop"]
    /\ slotInitKey' = TRUE
    /\ channel' = {}
    /\ UNCHANGED <<now, runs, job, slotList, revoked, acts, portal, missing, call, sweeps, hist>>

\* _ensure_selenium_slots: DELETE of the list.
TaskEnsureDelete(t) ==
    /\ tasks[t].pc = "ensure_delete"
    /\ slotList' = << >>
    /\ tasks' = [tasks EXCEPT ![t].pc = "ensure_rpush"]
    /\ channel' = {}
    /\ UNCHANGED <<now, runs, job, slotInitKey, revoked, acts, portal, missing, call, sweeps, hist>>

\* _ensure_selenium_slots: RPUSH of the N tokens.
TaskEnsureRpush(t) ==
    /\ tasks[t].pc = "ensure_rpush"
    /\ slotList' = Rpush(slotList, SlotTokens)
    /\ tasks' = [tasks EXCEPT ![t].pc = "brpop"]
    /\ channel' = {}
    /\ UNCHANGED <<now, runs, job, slotInitKey, revoked, acts, portal, missing, call, sweeps, hist>>

\* _acquire_selenium_slot: BRPOP returns a token.
TaskBrpop(t) ==
    /\ tasks[t].pc = "brpop"
    /\ slotList # << >>
    /\ tasks' = [tasks EXCEPT ![t].slot_token = BrpopToken(slotList), ![t].pc = "open"]
    /\ slotList' = BrpopRest(slotList)
    /\ channel' = {}
    /\ UNCHANGED <<now, runs, job, slotInitKey, revoked, acts, portal, missing, call, sweeps, hist>>

\* _acquire_selenium_slot returns None after timeout_seconds without a token.
TaskSlotTimeout(t) ==
    /\ tasks[t].pc = "brpop"
    /\ slotList = << >>
    /\ LET r == tasks[t].run IN
         /\ runs' = save_run_status(PushLog(runs, r, Line(t, "no_slot")), r,
                                    "failed", "no_slot_within_timeout", now)
         /\ channel' = StatusEvent(runs, r, "failed")
    /\ tasks' = [tasks EXCEPT ![t].hb = NoTime, ![t].pc = "done"]
    /\ UNCHANGED <<now, job, SlotVars, revoked, acts, portal, missing, call, sweeps, hist>>

\* makedirs, log of the download dir, executor.start(), log of the session.
TaskOpenSession(t) ==
    /\ tasks[t].pc = "open"
    /\ LET r == tasks[t].run IN
         runs' = PushLog(PushLog(PushLog(runs, r, Line(t, "download_dir")), r, Line(t, "connected")), r, Line(t, "executing"))
    /\ tasks' = [tasks EXCEPT ![t].pc = "scrape"]
    /\ channel' = {}
    /\ UNCHANGED <<now, job, SlotVars, revoked, acts, portal, missing, call, sweeps, hist>>

\* An exception between the slot acquisition and the inner try: os.makedirs
\* (step = "makedirs") or executor.start() (step = "start") raises.
TaskOpenSessionRaises(t) ==
    /\ tasks[t].pc = "open"
    /\ \E step \in {"makedirs", "start"} :
         LET r == tasks[t].run IN
           runs' = IF step = "start" THEN PushLog(runs, r, Line(t, "download_dir")) ELSE runs
    /\ tasks' = [tasks EXCEPT ![t].pc = "except"]
    /\ channel' = {}
    /\ UNCHANGED <<now, job, SlotVars, revoked, acts, portal, missing, call, sweeps, hist>>

\* connector.scrape returns: the result is saved.
TaskScrape(t) ==
    /\ tasks[t].pc = "scrape"
    /\ \E ok \in BOOLEAN :
         LET r == tasks[t].run IN
           /\ runs' = IF ok
                      THEN PushLog(save_run_status(runs, r, "success", NULL, now), r, Line(t, "scrape_ok"))
                      ELSE PushLog(save_run_status(runs, r, "failed", "scrape_error", now), r, Line(t, "scrape_failed"))
           /\ channel' = StatusEvent(runs, r, IF ok THEN "success" ELSE "failed")
           /\ tasks' = [tasks EXCEPT ![t].result = IF ok THEN "success" ELSE "failure",
                                     ![t].pc = "capture"]
    /\ UNCHANGED <<now, job, SlotVars, revoked, acts, portal, missing, call, sweeps, hist>>

\* connector.scrape raises: control goes to the finally block.
TaskScrapeRaises(t) ==
    /\ tasks[t].pc = "scrape"
    /\ tasks' = [tasks EXCEPT ![t].raised = TRUE, ![t].pc = "finally"]
    /\ channel' = {}
    /\ UNCHANGED <<now, runs, job, SlotVars, revoked, acts, portal, missing, call, sweeps, hist>>

(***************************************************************************)
(* Files of a run                                                          *)
(***************************************************************************)
\* excel_introspection.is_excel_filename: the suffix is .xlsx, .xlsm or .xls.
is_excel_filename(f) == f \in {"one.xlsx", "two.xlsx"}

\* excel_introspection.list_sheet_names, on the workbooks the portal serves.
list_sheet_names(f) ==
    IF f = "one.xlsx" THEN <<"S1">>
    ELSE IF f = "two.xlsx" THEN <<"S1", "S2">>
    ELSE << >>

\* The metadata scrape_task stores for a captured download.
OriginalEntry(f) ==
    [ file_type |-> "original", filename |-> f, is_latest |-> FALSE,
      snapshot |-> NULL, source |-> NULL ]

\* The name _normalize_processed_names gives the n-th output file of the run.
ProcessedName(n) ==
    <<"out1.csv", "out2.csv", "out3.csv", "out4.csv", "out5.csv", "out6.csv">>[n]

\* The metadata append_processed_to_run stores for an output file.
ProcessedEntry(f, snapshot, source) ==
    [ file_type |-> "processed", filename |-> f, is_latest |-> TRUE,
      snapshot |-> snapshot, source |-> source ]

SeqMap(Op(_), s) == [i \in DOMAIN s |-> Op(s[i])]

RECURSIVE SelectSeq2(_, _)
\* [x for x in s if x.file_type == kind]
SelectSeq2(s, kind) ==
    IF s = << >> THEN << >>
    ELSE IF Head(s).file_type = kind
         THEN <<Head(s)>> \o SelectSeq2(Tail(s), kind)
         ELSE SelectSeq2(Tail(s), kind)

\* FileProcessorService._original_files / downloads._original_files
_original_files(doc) == SelectSeq2(doc.files, "original")

\* names = [f.get("filename") for f in originals if f.get("filename")]
OriginalNames(doc) == SeqMap(LAMBDA e : e.filename, _original_files(doc))

(***************************************************************************)
(* scrape_task, continued                                                  *)
(***************************************************************************)
IdleActor ==
    [ kind |-> "idle", pc |-> "idle", run |-> NoId, doc |-> NoDoc, task |-> NoId,
      filename |-> NULL, sheet |-> NULL, script |-> NULL, source |-> NULL,
      named |-> NULL, w |-> NoWrite, state |-> NULL, out |-> NULL ]

\* FileManager.capture_downloads and the $set of Run.files.
TaskCapture(t) ==
    /\ tasks[t].pc = "capture"
    /\ LET r == tasks[t].run
           logged == PushLog(runs, r, Line(t, "checking_files")) IN
         runs' = IF portal # << >>
                 THEN PushLog(UpdateRun(logged, r, [files |-> SeqMap(OriginalEntry, portal)]),
                              r, Line(t, "files_captured"))
                 ELSE PushLog(logged, r, Line(t, "no_files"))
    /\ tasks' = [tasks EXCEPT ![t].pc = "finally"]
    /\ channel' = {}
    /\ UNCHANGED <<now, job, SlotVars, revoked, acts, portal, missing, call, sweeps, hist>>

\* _release_selenium_slot(token): LPUSH; nothing when the token is empty.
ReleaseSlot(list, token) == IF token = NoToken THEN list ELSE Lpush(list, token)

\* finally: heartbeat cancelled, executor.stop(), slot released, last log line.
TaskFinally(t) ==
    /\ tasks[t].pc = "finally"
    /\ slotList' = ReleaseSlot(slotList, tasks[t].slot_token)
    /\ runs' = PushLog(runs, tasks[t].run, Line(t, "session_ended"))
    /\ tasks' = [tasks EXCEPT ![t].hb = NoTime,
                              ![t].released = (tasks[t].slot_token # NoToken),
                              ![t].pc = IF tasks[t].raised THEN "except" ELSE "post"]
    /\ channel' = {}
    /\ UNCHANGED <<now, job, slotInitKey, revoked, acts, portal, missing, call, sweeps, hist>>

\* except Exception: save_run_status(failed, str(e)); raise.
TaskExcept(t) ==
    /\ tasks[t].pc = "except"
    /\ LET r == tasks[t].run IN
         /\ runs' = save_run_status(runs, r, "failed", "exception", now)
         /\ channel' = StatusEvent(runs, r, "failed")
    /\ tasks' = [tasks EXCEPT ![t].hb = NoTime, ![t].pc = "failed"]
    /\ UNCHANGED <<now, job, SlotVars, revoked, acts, portal, missing, call, sweeps, hist>>

\* should_process = bool(job.enable_processing and job.processing_script.strip())
ShouldProcess == job.enable_processing /\ job.processing_script # NULL

\* Post-processing is off: the task logs it and returns result_payload.
TaskPostSkip(t) ==
    /\ tasks[t].pc = "post"
    /\ ~ShouldProcess
    /\ runs' = PushLog(runs, tasks[t].run, Line(t, "processing_disabled"))
    /\ tasks' = [tasks EXCEPT ![t].pc = "done"]
    /\ channel' = {}
    /\ UNCHANGED <<now, job, SlotVars, revoked, acts, portal, missing, call, sweeps, hist>>

\* Post-processing is on: resolve_and_process_post_scrape is called.
TaskPostBegin(t) ==
    /\ tasks[t].pc = "post"
    /\ ShouldProcess
    /\ runs' = PushLog(runs, tasks[t].run, Line(t, "processing_files"))
    /\ tasks' = [tasks EXCEPT ![t].pc = "post_wait"]
    /\ acts' = [acts EXCEPT ![TaskActor(t)] =
                   [IdleActor EXCEPT !.kind = "post_scrape", !.pc = "raps_read",
                                     !.run = tasks[t].run, !.task = t]]
    /\ channel' = {}
    /\ UNCHANGED <<now, job, SlotVars, revoked, portal, missing, call, sweeps, hist>>

\* resolve_and_process_post_scrape returned: its state is logged.
TaskPostEnd(t) ==
    /\ tasks[t].pc = "post_wait"
    /\ acts[TaskActor(t)].pc = "returned"
    /\ runs' = PushLog(runs, tasks[t].run, Line(t, acts[TaskActor(t)].state))
    /\ tasks' = [tasks EXCEPT ![t].pc = "done"]
    /\ acts' = [acts EXCEPT ![TaskActor(t)] = IdleActor]
    /\ channel' = {}
    /\ UNCHANGED <<now, job, SlotVars, revoked, portal, missing, call, sweeps, hist>>

(***************************************************************************)
(* FileProcessorService: selection and the processing lock                 *)
(***************************************************************************)
\* _normalize_sheet_key: lower case, no diacritics, runs of other characters
\* become one blank; the key is given as its sequence of tokens.
_normalize_sheet_key(name) ==
    CASE name = "S1"   -> <<"s1">>
      [] name = "s1"   -> <<"s1">>
      [] name = "S2"   -> <<"s2">>
      [] name = "S1 x" -> <<"s1", "x">>
      [] OTHER         -> << >>

\* candidates = [preferred] + the aliases not yet in the list.
RECURSIVE AddAliases(_, _)
AddAliases(cands, aliases) ==
    IF aliases = << >> THEN cands
    ELSE IF Head(aliases) # NULL /\ Head(aliases) \notin Range(cands)
         THEN AddAliases(Append(cands, Head(aliases)), Tail(aliases))
         ELSE AddAliases(cands, Tail(aliases))

\* normalized_options[key]: the last option with that key.
RECURSIVE OptionWithKey(_, _)
OptionWithKey(opts, key) ==
    IF opts = << >> THEN NULL
    ELSE IF _normalize_sheet_key(opts[Len(opts)]) = key THEN opts[Len(opts)]
    ELSE OptionWithKey(SubSeq(opts, 1, Len(opts) - 1), key)

\* First loop of _pick_sheet_by_aliases: an option with the candidate's key.
RECURSIVE ExactPick(_, _)
ExactPick(opts, cands) ==
    IF cands = << >> THEN NULL
    ELSE IF OptionWithKey(opts, _normalize_sheet_key(Head(cands))) # NULL
         THEN OptionWithKey(opts, _normalize_sheet_key(Head(cands)))
         ELSE ExactPick(opts, Tail(cands))

Overlap(c, o) == Cardinality(Range(_normalize_sheet_key(c)) \cap Range(_normalize_sheet_key(o)))

\* best = the first option with the highest token overlap with the candidate.
BestOption(opts, c) ==
    LET top == CHOOSE n \in 0..10 :
                 /\ \E i \in DOMAIN opts : Overlap(c, opts[i]) = n
                 /\ \A i \in DOMAIN opts : Overlap(c, opts[i]) <= n
        idx == CHOOSE i \in DOMAIN opts :
                 /\ Overlap(c, opts[i]) = top
                 /\ \A k \in 1..(i - 1) : Overlap(c, opts[k]) < top
    IN  IF top = 0 THEN [opt |-> NULL, score |-> 0] ELSE [opt |-> opts[idx], score |-> top]

\* Second loop of _pick_sheet_by_aliases: the token-overlap fallback.
RECURSIVE OverlapPick(_, _)
OverlapPick(opts, cands) ==
    IF cands = << >> THEN NULL
    ELSE LET c == Head(cands)
             n == Len(_normalize_sheet_key(c))
             b == BestOption(opts, c)
         IN  IF n > 0 /\ b.opt # NULL /\ b.score >= Max(1, n \div 2)
             THEN b.opt
             ELSE OverlapPick(opts, Tail(cands))

_pick_sheet_by_aliases(sheet_options, preferred, aliases) ==
    IF sheet_options = << >> THEN NULL
    ELSE LET cands == AddAliases(IF preferred # NULL THEN <<preferred>> ELSE << >>, aliases)
         IN  IF ExactPick(sheet_options, cands) # NULL
             THEN ExactPick(sheet_options, cands)
             ELSE OverlapPick(sheet_options, cands)

\* The $set of _set_run_processing_state: all four fields are written.
ProcessingState(ps, fn, sh, err) ==
    [ processing_status |-> ps, selected_filename |-> fn,
      selected_sheet |-> sh, processing_error |-> err ]

\* What a resolver decides: a last write with the state it returns, or the lock.
Final(ps, fn, sh, err) ==
    [next |-> "final_write", w |-> ProcessingState(ps, fn, sh, err),
     state |-> ps, filename |-> fn, sheet |-> sh]
Go(fn, sh) ==
    [next |-> "lock", w |-> NoWrite, state |-> NULL, filename |-> fn, sheet |-> sh]

\* resolve_and_process_post_scrape, from the originals to the lock.
RapsResolve(doc, j) ==
    LET names == OriginalNames(doc)
        fn == IF j.last_selected_filename # NULL /\ j.last_selected_filename \in Range(names)
              THEN j.last_selected_filename
              ELSE IF Len(names) = 1 THEN names[1] ELSE NULL
        opts == list_sheet_names(fn)
        pref == _pick_sheet_by_aliases(opts, j.last_selected_sheet, j.sheet_aliases)
    IN  IF names = << >> THEN Final("not_required", NULL, NULL, NULL)
        ELSE IF fn = NULL THEN Final("pending_file_selection", NULL, NULL, NULL)
        ELSE IF ~is_excel_filename(fn) THEN Go(fn, NULL)
        ELSE IF opts = << >> THEN Final("failed", fn, NULL, "could_not_list_sheets")
        ELSE IF pref # NULL THEN Go(fn, pref)
        ELSE IF Len(opts) = 1 THEN Go(fn, opts[1])
        ELSE Final("pending_sheet_selection", fn, NULL, NULL)

\* process_with_user_selection, from the originals to the lock.
PwusResolve(doc, j, filename, sheet) ==
    LET opts == list_sheet_names(filename)
        alias == _pick_sheet_by_aliases(opts, sheet, j.sheet_aliases)
    IN  IF filename \notin Range(OriginalNames(doc))
        THEN Final("failed", NULL, NULL, "original_not_found")
        ELSE IF ~is_excel_filename(filename) THEN Go(filename, sheet)
        ELSE IF sheet = NULL THEN Final("pending_sheet_selection", filename, NULL, NULL)
        ELSE IF sheet \in Range(opts) THEN Go(filename, sheet)
        ELSE IF alias # NULL THEN Go(filename, alias)
        ELSE Final("pending_sheet_selection", filename, NULL, "sheet_not_found")

\* _acquire_processing_lock: the filter of the conditional update matches.
LockFree(doc) == doc # NoDoc /\ doc.processing_status # "processing"

\* _acquire_processing_lock: the $set of the conditional update.
LockUpdate_Typo == [processing_status |-> "in_progress", processing_error |-> NULL]
LockUpdate == [processing_status |-> "processing", processing_error |-> NULL]

\* A processing function returns: an API handler answers and is gone, the
\* post-scrape actor hands the state back to its task.
Return(a, state) ==
    IF a \in ReqIds THEN IdleActor
    ELSE [acts[a] EXCEPT !.pc = "returned", !.state = state]

\* A processor child process of actor a is running.
InFlight(a) == acts[a].pc = "exec"

(***************************************************************************)
(* FileProcessorService: the steps of one processing call                  *)
(***************************************************************************)
ProcFrame == <<now, slotInitKey, slotList, tasks, revoked, portal, missing, call, sweeps>>

\* resolve_and_process_post_scrape: Run.get, Job.get and the selection.
RapsRead(a) ==
    /\ acts[a].pc = "raps_read"
    /\ LET r == acts[a].run
           d == RapsResolve(runs[r], job) IN
         acts' = [acts EXCEPT ![a] =
                    IF runs[r] = NoDoc THEN Return(a, "failed")
                    ELSE [@ EXCEPT !.pc = d.next, !.w = d.w, !.state = d.state,
                                   !.filename = d.filename, !.sheet = d.sheet]]
    /\ channel' = {}
    /\ UNCHANGED <<ProcFrame, runs, job, hist>>

\* process_with_user_selection: Run.get, Job.get and the checks of the choice.
PwusRead(a) ==
    /\ acts[a].pc = "pwus_read"
    /\ LET r == acts[a].run
           d == PwusResolve(runs[r], job, acts[a].filename, acts[a].sheet) IN
         acts' = [acts EXCEPT ![a] =
                    IF runs[r] = NoDoc THEN Return(a, "failed")
                    ELSE [@ EXCEPT !.pc = d.next, !.w = d.w, !.state = d.state,
                                   !.filename = IF d.next = "lock" THEN d.filename ELSE @,
                                   !.sheet = IF d.next = "lock" THEN d.sheet ELSE @]]
    /\ channel' = {}
    /\ UNCHANGED <<ProcFrame, runs, job, hist>>

\* A last $set on the run, after which the call returns.
ActFinalWrite(a) ==
    /\ acts[a].pc = "final_write"
    /\ runs' = UpdateRun(runs, acts[a].run, acts[a].w)
    /\ acts' = [acts EXCEPT ![a] = Return(a, acts[a].state)]
    /\ channel' = {}
    /\ UNCHANGED <<ProcFrame, job, hist>>

\* The state a caller writes when it did not get the lock:
\* process_with_user_selection overwrites the four fields,
\* resolve_and_process_post_scrape writes nothing.
BusyWrite(a) ==
    IF acts[a].kind = "post_scrape" THEN NoWrite
    ELSE ProcessingState("processing", acts[a].filename, acts[a].sheet, "already_running")

\* _acquire_processing_lock.
ActLock(a) ==
    /\ acts[a].pc = "lock"
    /\ LET r == acts[a].run IN
         IF LockFree(runs[r])
         THEN /\ runs' = UpdateRun(runs, r, LockUpdate)
              /\ acts' = [acts EXCEPT ![a].pc = "set_processing"]
         ELSE /\ runs' = runs
              /\ acts' = [acts EXCEPT ![a] =
                            IF BusyWrite(a) = NoWrite THEN Return(a, "processing")
                            ELSE [@ EXCEPT !.pc = "final_write", !.w = BusyWrite(a),
                                           !.state = "processing"]]
    /\ channel' = {}
    /\ UNCHANGED <<ProcFrame, job, hist>>

\* The script a call executes: the override (a stored snapshot), else the
\* job's script when processing is enabled on the job.
ScriptFor_JobFirst(a) ==
    IF job.enable_processing /\ job.processing_script # NULL
    THEN [text |-> job.processing_script, source |-> "job"]
    ELSE [text |-> acts[a].script, source |-> acts[a].source]
ScriptFor(a) ==
    IF acts[a].script # NULL THEN [text |-> acts[a].script, source |-> acts[a].source]
    ELSE IF job.enable_processing /\ job.processing_script # NULL
         THEN [text |-> job.processing_script, source |-> "job"]
         ELSE [text |-> NULL, source |-> NULL]

\* The lock holder records its selection; with a script, process_files starts
\* the processor child process.
ActSetProcessing(a) ==
    /\ acts[a].pc = "set_processing"
    /\ runs' = UpdateRun(runs, acts[a].run,
                         ProcessingState("processing", acts[a].filename, acts[a].sheet, NULL))
    /\ acts' = [acts EXCEPT ![a] =
                  IF ScriptFor(a).text = NULL
                  THEN [@ EXCEPT !.pc = "final_write", !.state = "failed",
                                 !.w = ProcessingState("failed", acts[a].filename,
                                                       acts[a].sheet, "no_script")]
                  ELSE [@ EXCEPT !.pc = "exec", !.script = ScriptFor(a).text,
                                 !.source = ScriptFor(a).source]]
    /\ hist' = [hist EXCEPT !.execs = IF ScriptFor(a).text = NULL THEN @ ELSE @ + 1]
    /\ channel' = {}
    /\ UNCHANGED <<ProcFrame, job>>

\* The processor child process ends: its outputs are promoted and pass the
\* validation (ok), or process_files returns no path and an error.
ActExecDone(a) ==
    /\ acts[a].pc = "exec"
    /\ \E ok \in BOOLEAN :
         IF ok
         THEN /\ acts' = [acts EXCEPT ![a].pc = "append_read", ![a].out = ProcessedName(hist.nproc + 1)]
              /\ hist' = [hist EXCEPT !.nproc = @ + 1]
         ELSE /\ acts' = [acts EXCEPT ![a] =
                            [@ EXCEPT !.pc = "final_write", !.state = "failed",
                                      !.w = ProcessingState("failed", acts[a].filename,
                                                            acts[a].sheet, "processor_failed")]]
              /\ hist' = hist
    /\ channel' = {}
    /\ UNCHANGED <<ProcFrame, runs, job>>

\* downloads._existing_files_only and the loop of append_processed_to_run
\* that drops stale metadata: the entries whose file is still on disk.
RECURSIVE ExistingOnly(_)
ExistingOnly(files) ==
    IF files = << >> THEN << >>
    ELSE IF Head(files).filename \in missing THEN ExistingOnly(Tail(files))
         ELSE <<Head(files)>> \o ExistingOnly(Tail(files))

\* append_processed_to_run: current_run = Run.get(run_id), and the entries
\* of it whose file exists.
ActAppendRead(a) ==
    /\ acts[a].pc = "append_read"
    /\ acts' = [acts EXCEPT ![a].doc = IF runs[acts[a].run] = NoDoc THEN NoDoc
                                       ELSE [runs[acts[a].run] EXCEPT !.files = ExistingOnly(@)],
                            ![a].pc = "append_write"]
    /\ channel' = {}
    /\ UNCHANGED <<ProcFrame, runs, job, hist>>

\* existing["is_latest"] = False for every processed entry already listed.
ClearLatest(files) ==
    [i \in DOMAIN files |->
        IF files[i].file_type = "processed" THEN [files[i] EXCEPT !.is_latest = FALSE]
        ELSE files[i]]

\* append_processed_to_run: the list read before, with the new entry, is
\* written back; then the job remembers the selection.
ActAppendWrite(a) ==
    /\ acts[a].pc = "append_write"
    /\ runs' = IF acts[a].doc = NoDoc THEN runs
               ELSE UpdateRun(runs, acts[a].run,
                      [files |-> Append(ClearLatest(acts[a].doc.files),
                                        ProcessedEntry(acts[a].out, acts[a].script, acts[a].source))])
    /\ job' = [job EXCEPT !.last_selected_filename = acts[a].filename,
                          !.last_selected_sheet = acts[a].sheet]
    /\ acts' = [acts EXCEPT ![a].pc = "set_processed", ![a].doc = NoDoc]
    /\ hist' = [hist EXCEPT !.batch = IF acts[a].doc = NoDoc THEN @ ELSE acts[a].out]
    /\ channel' = {}
    /\ UNCHANGED ProcFrame

\* _set_run_processing_state(run, "processed", ...) and return.
ActSetProcessed(a) ==
    /\ acts[a].pc = "set_processed"
    /\ runs' = UpdateRun(runs, acts[a].run,
                         ProcessingState("processed", acts[a].filename, acts[a].sheet, NULL))
    /\ acts' = [acts EXCEPT ![a] = Return(a, "processed")]
    /\ channel' = {}
    /\ UNCHANGED <<ProcFrame, job, hist>>

\* The steps shared by every processing call.
ProcStep(a) ==
    \/ ActFinalWrite(a)
    \/ ActLock(a)
    \/ ActSetProcessing(a)
    \/ ActExecDone(a)
    \/ ActAppendRead(a)
    \/ ActAppendWrite(a)
    \/ ActSetProcessed(a)

(***************************************************************************)
(* Processing endpoints (app/console/routers/downloads.py)                 *)
(***************************************************************************)
\* Python's  a or b or c  over optional strings.
FirstSet(a, b, c) == IF a # NULL THEN a ELSE IF b # NULL THEN b ELSE c

\* str.lower() on the sheet names of the model.
Lower(name) == IF name = "S1" THEN "s1" ELSE IF name = "S2" THEN "s2" ELSE name

\* _merge_aliases: the values not yet among the aliases, compared in lower case.
RECURSIVE MergeAliases(_, _)
MergeAliases(merged, values) ==
    IF values = << >> THEN merged
    ELSE IF Head(values) # NULL /\ Lower(Head(values)) \notin {Lower(m) : m \in Range(merged)}
         THEN MergeAliases(Append(merged, Head(values)), Tail(values))
         ELSE MergeAliases(merged, Tail(values))

\* The file and sheet reprocess_run and reprocess_from_processed settle on:
\* payload, then the run's selection, then the job's last selection, then the
\* only original.
EndpointFilename(doc, j, pf) ==
    LET names == OriginalNames(doc)
        fn == FirstSet(pf, doc.selected_filename, j.last_selected_filename)
    IN  IF fn = NULL /\ Len(names) = 1 THEN names[1] ELSE fn

EndpointSheet(doc, j, ps) == FirstSet(ps, doc.selected_sheet, j.last_selected_sheet)

\* The handler of process / reprocess-from-processed after its reads: either
\* the pending_file_selection write, or process_with_user_selection.
EndpointActor(kind, r, doc, j, pf, ps, script, source) ==
    IF EndpointFilename(doc, j, pf) = NULL
    THEN [IdleActor EXCEPT !.kind = kind, !.run = r, !.pc = "final_write",
                           !.state = "pending_file_selection",
                           !.w = [processing_status |-> "pending_file_selection",
                                  processing_error |-> NULL]]
    ELSE [IdleActor EXCEPT !.kind = kind, !.run = r, !.pc = "pwus_read",
                           !.filename = EndpointFilename(doc, j, pf),
                           !.sheet = EndpointSheet(doc, j, ps),
                           !.script = script, !.source = source]

\* POST /{run_id}/processing/process with payload (pf, ps): the request is
\* taken when the run has originals and the file is one of them.
reprocess_run(a, r, pf, ps) ==
    /\ a \in ReqIds /\ acts[a].kind = "idle"
    /\ runs[r] # NoDoc
    /\ OriginalNames(runs[r]) # << >>
    /\ LET fn == EndpointFilename(runs[r], job, pf) IN
         fn = NULL \/ fn \in Range(OriginalNames(runs[r]))
    /\ acts' = [acts EXCEPT ![a] = EndpointActor("process", r, runs[r], job, pf, ps, NULL, NULL)]
    /\ channel' = {}
    /\ hist' = Admit(hist)
    /\ UNCHANGED <<ProcFrame, runs, job>>

\* The processed entries of the run with the given filename.
ProcessedNamed(doc, name) ==
    {i \in DOMAIN doc.files :
        doc.files[i].file_type = "processed" /\ doc.files[i].filename = name}

\* POST /{run_id}/processing/reprocess-from-processed: the script snapshot of
\* the first processed entry with the given name is the script override.
reprocess_from_processed(a, r, pname, pf, ps) ==
    /\ a \in ReqIds /\ acts[a].kind = "idle"
    /\ runs[r] # NoDoc
    /\ ProcessedNamed(runs[r], pname) # {}
    /\ LET i == CHOOSE i \in ProcessedNamed(runs[r], pname) :
                  \A k \in ProcessedNamed(runs[r], pname) : i <= k
           snap == runs[r].files[i].snapshot
           fn == EndpointFilename(runs[r], job, pf) IN
         /\ snap # NULL
         /\ OriginalNames(runs[r]) # << >>
         /\ fn = NULL \/ fn \in Range(OriginalNames(runs[r]))
         /\ acts' = [acts EXCEPT ![a] =
                       [EndpointActor("reprocess_snapshot", r, runs[r], job, pf, ps,
                                      snap, "snapshot") EXCEPT !.named = pname]]
    /\ channel' = {}
    /\ hist' = Admit(hist)
    /\ UNCHANGED <<ProcFrame, runs, job>>

\* POST /{run_id}/processing/select-sheet: the job remembers the choice,
\* then the run is written.
select_sheet_for_processing(a, r, fn, sh) ==
    /\ a \in ReqIds /\ acts[a].kind = "idle"
    /\ runs[r] # NoDoc
    /\ job' = [job EXCEPT !.last_selected_filename = fn,
                          !.last_selected_sheet = sh,
                          !.sheet_aliases = MergeAliases(@, <<sh>>)]
    /\ acts' = [acts EXCEPT ![a] =
                  [IdleActor EXCEPT !.kind = "select_sheet", !.run = r, !.pc = "final_write",
                                    !.state = "pending_reprocess",
                                    !.w = ProcessingState("pending_reprocess", fn, sh, NULL)]]
    /\ channel' = {}
    /\ hist' = Admit(hist)
    /\ UNCHANGED <<ProcFrame, runs>>

\* What select-file stores for a file: the only sheet of a workbook, or no
\* sheet and pending_sheet_selection when the workbook has several.
SelectFileChoice_NoSheets(fn) ==
    [status |-> "pending_reprocess", sheet |-> NULL, aliases |-> << >>]
SelectFileChoice(fn) ==
    LET opts == list_sheet_names(fn) IN
      IF is_excel_filename(fn) /\ Len(opts) = 1
      THEN [status |-> "pending_reprocess", sheet |-> opts[1], aliases |-> opts]
      ELSE IF is_excel_filename(fn)
      THEN [status |-> "pending_sheet_selection", sheet |-> NULL, aliases |-> opts]
      ELSE [status |-> "pending_reprocess", sheet |-> NULL, aliases |-> << >>]

\* POST /{run_id}/processing/select-file.
select_file_for_processing(a, r, fn) ==
    /\ a \in ReqIds /\ acts[a].kind = "idle"
    /\ runs[r] # NoDoc
    /\ fn \in Range(OriginalNames(runs[r]))
    /\ LET c == SelectFileChoice(fn) IN
         /\ job' = [job EXCEPT !.last_selected_filename = fn,
                               !.last_selected_sheet = c.sheet,
                               !.sheet_aliases = MergeAliases(@, c.aliases)]
         /\ acts' = [acts EXCEPT ![a] =
                       [IdleActor EXCEPT !.kind = "select_file", !.run = r, !.pc = "final_write",
                                         !.state = c.status,
                                         !.w = ProcessingState(c.status, fn, c.sheet, NULL)]]
    /\ channel' = {}
    /\ hist' = Admit(hist)
    /\ UNCHANGED <<ProcFrame, runs>>

\* Files of the run that may disappear from the artifacts directory.
MaxRemoved == 1

\* A file listed on run r is removed from the artifacts directory (by an
\* operator or a clean-up of the volume; no code of the service deletes one).
ArtifactRemoved(r, f) ==
    /\ runs[r] # NoDoc
    /\ f \in {runs[r].files[i].filename : i \in DOMAIN runs[r].files}
    /\ f \notin missing
    /\ Cardinality(missing) < MaxRemoved
    /\ missing' = missing \cup {f}
    /\ channel' = {}
    /\ UNCHANGED <<now, runs, job, slotInitKey, slotList, tasks, revoked, acts, portal,
                   call, sweeps, hist>>

\* GET /downloads/: the runs are read; when a listed file of run r is not on
\* disk, the entries read, without the missing ones, are written back.
list_downloads(a, r) ==
    /\ a \in ReqIds /\ acts[a].kind = "idle"
    /\ runs[r] # NoDoc
    /\ runs[r].files # << >>
    /\ LET existing_files == ExistingOnly(runs[r].files) IN
         acts' = [acts EXCEPT ![a] =
                    IF Len(existing_files) # Len(runs[r].files)
                    THEN [IdleActor EXCEPT !.kind = "list_downloads", !.run = r,
                                           !.pc = "final_write",
                                           !.w = [files |-> existing_files]]
                    ELSE IdleActor]
    /\ channel' = {}
    /\ hist' = Admit(hist)
    /\ UNCHANGED <<ProcFrame, runs, job>>

(***************************************************************************)
(* Run lifecycle endpoints (app/console/routers/jobs.py, runs.py)          *)
(***************************************************************************)
LifeFrame == <<now, job, slotInitKey, slotList, portal, missing, call, sweeps>>

\* The id Celery gives the next dispatched task.
NextTaskId ==
    CHOOSE t \in TaskIds : tasks[t].pc = "none" /\ \A k \in 1..(t - 1) : tasks[k].pc # "none"

\* run.save(): every field of the stored document is set from the handler's
\* copy of it.
SaveRun(rs, r, doc) == [rs EXCEPT ![r] = doc]

\* POST /jobs/{job_id}/run: the Run document is created and saved.
trigger_run(a, r) ==
    /\ a \in ReqIds /\ acts[a].kind = "idle"
    /\ runs[r] = NoDoc
    /\ runs' = SaveRun(runs, r, NewRun(now))
    /\ acts' = [acts EXCEPT ![a] =
                  [IdleActor EXCEPT !.kind = "trigger", !.pc = "dispatch", !.run = r,
                                    !.doc = NewRun(now)]]
    /\ channel' = {}
    /\ hist' = Admit(hist)
    /\ UNCHANGED <<LifeFrame, tasks, revoked>>

\* scrape_task.delay(...): run.celery_task_id = task.id on the handler's copy.
ActDispatch(a) ==
    /\ acts[a].pc = "dispatch"
    /\ \E t \in TaskIds : tasks[t].pc = "none"
    /\ tasks' = [tasks EXCEPT ![NextTaskId] = QueuedTask(acts[a].run)]
    /\ acts' = [acts EXCEPT ![a].pc = "save_id", ![a].task = NextTaskId,
                            ![a].doc = [@ EXCEPT !.celery_task_id = NextTaskId]]
    /\ channel' = {}
    /\ UNCHANGED <<LifeFrame, runs, revoked, hist>>

\* The second run.save() of trigger_run and retry_run.
ActSaveId(a) ==
    /\ acts[a].pc = "save_id"
    /\ runs' = SaveRun(runs, acts[a].run, acts[a].doc)
    /\ acts' = [acts EXCEPT ![a] = IdleActor]
    /\ channel' = {}
    /\ UNCHANGED <<LifeFrame, tasks, revoked, hist>>

\* The fields retry_run resets on its copy of the run.
RetryDoc_KeepAttempt(doc) == [doc EXCEPT !.status = "queued"]
RetryDoc(doc) ==
    [doc EXCEPT !.attempt = @ + 1,
                !.status = "queued",
                !.error_summary = NULL,
                !.started_at = NoTime,
                !.finished_at = NoTime,
                !.processing_status = "not_required",
                !.selected_filename = NULL,
                !.selected_sheet = NULL,
                !.processing_error = NULL]

\* The run states retry_run accepts: the handler checks only that the run
\* exists and belongs to the job.
RetryAccepts(doc) == doc # NoDoc

\* POST /jobs/{job_id}/run/{run_id}/retry: Job.get, Run.get, the reset.
retry_run(a, r) ==
    /\ a \in ReqIds /\ acts[a].kind = "idle"
    /\ RetryAccepts(runs[r])
    /\ acts' = [acts EXCEPT ![a] =
                  [IdleActor EXCEPT !.kind = "retry", !.pc = "retry_save", !.run = r,
                                    !.doc = RetryDoc(runs[r])]]
    /\ channel' = {}
    /\ hist' = Admit(hist)
    /\ UNCHANGED <<LifeFrame, runs, tasks, revoked>>

\* The first run.save() of retry_run.
ActRetrySave(a) ==
    /\ acts[a].pc = "retry_save"
    /\ runs' = SaveRun(runs, acts[a].run, acts[a].doc)
    /\ acts' = [acts EXCEPT ![a].pc = "dispatch"]
    /\ hist' = [hist EXCEPT !.requeued[acts[a].run] = now]
    /\ channel' = {}
    /\ UNCHANGED <<LifeFrame, tasks, revoked>>

\* The fields stop_run sets on its copy of the run.
StopDoc(doc, t) ==
    [doc EXCEPT !.status = "failed",
                !.error_summary = "Cancelled by user",
                !.logs = @ \cup {Line(NoId, "cancelled")},
                !.finished_at = t]

\* celery_app.control.revoke(run.celery_task_id, terminate=True)
Revoke(ids, task_id) == IF task_id = NoId THEN ids ELSE ids \cup {task_id}

\* POST /runs/{run_id}/stop: Run.get, the status check, the revoke.
stop_run(a, r) ==
    /\ a \in ReqIds /\ acts[a].kind = "idle"
    /\ runs[r] # NoDoc
    /\ runs[r].status \in {"queued", "running"}
    /\ revoked' = Revoke(revoked, runs[r].celery_task_id)
    /\ acts' = [acts EXCEPT ![a] =
                  [IdleActor EXCEPT !.kind = "stop", !.pc = "stop_save", !.run = r,
                                    !.doc = runs[r]]]
    /\ channel' = {}
    /\ hist' = Admit(hist)
    /\ UNCHANGED <<LifeFrame, runs, tasks>>

\* The tasks of run r still waiting in the queue.
QueuedTasksOf(r) == {t \in TaskIds : tasks[t].pc = "queued" /\ tasks[t].run = r}

\* run.save() of stop_run.
ActStopSave(a) ==
    /\ acts[a].pc = "stop_save"
    /\ LET r == acts[a].run IN
         /\ runs' = SaveRun(runs, r, StopDoc(acts[a].doc, now))
         /\ hist' = [hist EXCEPT !.cancelled =
                        IF runs[r].status = "queued" /\ acts[a].doc.status = "queued"
                        THEN @ \cup QueuedTasksOf(r) ELSE @]
    /\ acts' = [acts EXCEPT ![a] = IdleActor]
    /\ channel' = {}
    /\ UNCHANGED <<LifeFrame, tasks, revoked>>

\* Positions at which the worker process is executing the task body.
Executing == {"set_running", "no_connector", "acquire", "ensure_delete", "ensure_rpush",
              "brpop", "open", "scrape", "capture", "finally", "except", "post", "post_wait"}

\* A revoked task is dropped by the worker that receives it.
TaskDiscard(t) ==
    /\ tasks[t].pc = "queued"
    /\ t \in revoked
    /\ tasks' = [tasks EXCEPT ![t].pc = "discarded"]
    /\ channel' = {}
    /\ UNCHANGED <<now, runs, job, SlotVars, revoked, acts, portal, missing, call, sweeps, hist>>

\* terminate=True: the worker process running a revoked task is killed; no
\* except or finally block of the task runs.
TaskKill(t) ==
    /\ tasks[t].pc \in Executing
    /\ t \in revoked
    /\ tasks' = [tasks EXCEPT ![t].pc = "killed", ![t].hb = NoTime]
    /\ acts' = [acts EXCEPT ![TaskActor(t)] = IdleActor]
    /\ channel' = {}
    /\ UNCHANGED <<now, runs, job, SlotVars, revoked, portal, missing, call, sweeps, hist>>

(***************************************************************************)
(* Clock, heartbeat and cleanup_stale_runs (core/tasks.py)                 *)
(***************************************************************************)
\* A minute passes.
Tick ==
    /\ now < QueueMinutes + ZombieMinutes + MaxTime
    /\ now' = now + 1
    /\ channel' = {}
    /\ UNCHANGED <<runs, job, SlotVars, tasks, revoked, acts, portal, missing, call, sweeps, hist>>

\* heartbeat_loop: after a sleep of one minute, $set of updated_at.
Heartbeat(t) ==
    /\ tasks[t].pc \in Executing
    /\ tasks[t].hb # NoTime
    /\ now >= tasks[t].hb + HeartbeatMinutes
    /\ runs' = UpdateRun(runs, tasks[t].run, [updated_at |-> now])
    /\ tasks' = [tasks EXCEPT ![t].hb = now]
    /\ channel' = {}
    /\ UNCHANGED <<now, job, SlotVars, revoked, acts, portal, missing, call, sweeps, hist>>

\* zombie_cutoff = get_now() - timedelta(minutes=5)
ZombieCutoff_Late(t) == t - ZombieMinutes - 1
ZombieCutoff(t) == t - ZombieMinutes

\* queue_cutoff = get_now() - timedelta(hours=1)
QueueCutoff(t) == t - QueueMinutes

\* The collection as the list of its documents, by id.
AllRuns(rs) == [i \in 1..Cardinality(RunIds) |-> [run |-> i, doc |-> rs[i]]]

\* Run.find(Run.status == "running", Run.updated_at < zombie_cutoff).to_list()
FindZombies(rs, cutoff) ==
    SelectSeq(AllRuns(rs), LAMBDA e : /\ e.doc # NoDoc
                                      /\ e.doc.status = "running"
                                      /\ e.doc.updated_at < cutoff)

\* Run.find(Run.status == "queued", Run.created_at < queue_cutoff).to_list()
FindStuck_Running(rs, cutoff) ==
    SelectSeq(AllRuns(rs), LAMBDA e : /\ e.doc # NoDoc
                                      /\ e.doc.status = "running"
                                      /\ e.doc.created_at < cutoff)
FindStuck(rs, cutoff) ==
    SelectSeq(AllRuns(rs), LAMBDA e : /\ e.doc # NoDoc
                                      /\ e.doc.status = "queued"
                                      /\ e.doc.created_at < cutoff)

\* The fields the sweep sets on a document it found, before run.save().
SweepDoc(doc, reason, line, t) ==
    [doc EXCEPT !.status = "failed",
                !.error_summary = reason,
                !.logs = @ \cup {Line(NoId, line)},
                !.finished_at = t]

\* A sweep that is not running.
IdleSweep == [pc |-> "idle", found |-> << >>]

SweepFrame == <<now, job, slotInitKey, slotList, tasks, revoked, acts, portal, missing, call, hist>>

\* cleanup_stale_runs, part 1: the query for running runs without heartbeat.
SweepZombieQuery(s) ==
    /\ sweeps[s].pc = "idle"
    /\ sweeps' = [sweeps EXCEPT ![s] = [pc |-> "zombies",
                                        found |-> FindZombies(runs, ZombieCutoff(now))]]
    /\ channel' = {}
    /\ UNCHANGED <<SweepFrame, runs>>

\* for run in zombies: ...; await run.save()
SweepZombieSave(s) ==
    /\ sweeps[s].pc = "zombies"
    /\ sweeps[s].found # << >>
    /\ LET e == Head(sweeps[s].found) IN
         runs' = SaveRun(runs, e.run,
                         SweepDoc(e.doc, "Zombie execution detected (Heartbeat lost)",
                                  "zombie", now))
    /\ sweeps' = [sweeps EXCEPT ![s].found = Tail(@)]
    /\ channel' = {}
    /\ UNCHANGED SweepFrame

\* cleanup_stale_runs, part 2: the query for runs queued for more than an hour.
SweepStuckQuery(s) ==
    /\ sweeps[s].pc = "zombies"
    /\ sweeps[s].found = << >>
    /\ sweeps' = [sweeps EXCEPT ![s] = [pc |-> "stuck",
                                        found |-> FindStuck(runs, QueueCutoff(now))]]
    /\ channel' = {}
    /\ UNCHANGED <<SweepFrame, runs>>

\* for run in stuck_queued: ...; await run.save()
SweepStuckSave(s) ==
    /\ sweeps[s].pc = "stuck"
    /\ sweeps[s].found # << >>
    /\ LET e == Head(sweeps[s].found) IN
         runs' = SaveRun(runs, e.run,
                         SweepDoc(e.doc, "Stuck in queue > 1h", "queue_timeout", now))
    /\ sweeps' = [sweeps EXCEPT ![s].found = Tail(@)]
    /\ channel' = {}
    /\ UNCHANGED SweepFrame

\* cleanup_stale_runs returns; Celery beat starts it again later.
SweepReturn(s) ==
    /\ sweeps[s].pc = "stuck"
    /\ sweeps[s].found = << >>
    /\ sweeps' = [sweeps EXCEPT ![s] = IdleSweep]
    /\ channel' = {}
    /\ UNCHANGED <<SweepFrame, runs>>

(***************************************************************************)
(* Initial states                                                          *)
(***************************************************************************)
NoJobSelection ==
    [ connector |-> "grid", enable_processing |-> FALSE, processing_script |-> NULL,
      last_selected_filename |-> NULL, last_selected_sheet |-> NULL,
      sheet_aliases |-> << >> ]

InitBase ==
    /\ slotInitKey = FALSE
    /\ slotList = << >>
    /\ revoked = {}
    /\ channel = {}
    /\ acts = [a \in Actors |-> IdleActor]
    /\ sweeps = [s \in SweepIds |-> IdleSweep]
    /\ missing = {}
    /\ call = NoCall
    /\ hist = [calls |-> 0, cancelled |-> {}, execs |-> 0, nproc |-> 0,
               requeued |-> [r \in RunIds |-> NoTime], batch |-> NULL]

(***************************************************************************)
(* Specification of the slot pool: N+1 runs of a grid connector have been  *)
(* triggered, their tasks wait in the queue, Redis is fresh.               *)
(***************************************************************************)
InitSlots ==
    /\ InitBase
    /\ now = 0
    /\ job = NoJobSelection
    /\ portal = << >>
    /\ runs = [r \in RunIds |->
                 IF r \in SlotTasks THEN [NewRun(0) EXCEPT !.celery_task_id = r] ELSE NoDoc]
    /\ tasks = [t \in TaskIds |-> IF t \in SlotTasks THEN QueuedTask(t) ELSE NoTask]

NextSlots ==
    \E t \in SlotTasks :
        \/ TaskStart(t)
        \/ TaskSetRunning(t)
        \/ TaskEnsureSetnx(t)
        \/ TaskEnsureDelete(t)
        \/ TaskEnsureRpush(t)
        \/ TaskBrpop(t)
        \/ TaskSlotTimeout(t)
        \/ TaskOpenSession(t)
        \/ TaskOpenSessionRaises(t)
        \/ TaskScrape(t)
        \/ TaskScrapeRaises(t)
        \/ TaskCapture(t)
        \/ TaskFinally(t)
        \/ TaskExcept(t)
        \/ TaskPostSkip(t)

SpecSlots == InitSlots /\ [][NextSlots]_vars

\* Task t has taken a token from the pool and not pushed it back.
Holding(t) == tasks[t].slot_token # NoToken /\ ~tasks[t].released
Holders == {t \in TaskIds : Holding(t)}

\* Task t has called _acquire_selenium_slot.
CalledAcquire(t) == tasks[t].pc \notin {"queued", "set_running", "acquire"}

\* Task t is inside _acquire_selenium_slot without a token, or has left it
\* with None after the timeout.
Blocked(t) ==
    /\ tasks[t].slot_token = NoToken
    /\ \/ tasks[t].pc \in {"ensure_delete", "ensure_rpush", "brpop"}
       \/ tasks[t].pc = "done" /\ runs[tasks[t].run].error_summary = "no_slot_within_timeout"

C2_SlotReleasedAtEnd ==
    \A t \in TaskIds :
        (tasks[t].pc \in {"done", "failed"} /\ tasks[t].slot_token # NoToken) => tasks[t].released

(***************************************************************************)
(* Specification of the sweep: runs that are running with a recent or an   *)
(* old heartbeat, or queued for about an hour; the clock advances, the     *)
(* heartbeats and the workers go on, cleanup_stale_runs runs periodically. *)
(***************************************************************************)
SweepStart == QueueMinutes + ZombieMinutes

\* The run states the sweep specification starts from.
SweepSeeds ==
    {[status |-> "running", created_at |-> 0, updated_at |-> u] :
        u \in {SweepStart - ZombieMinutes - 1, SweepStart - ZombieMinutes, SweepStart - 1}}
    \cup
    {[status |-> "queued", created_at |-> c, updated_at |-> c] :
        c \in {SweepStart - QueueMinutes - 1, SweepStart - QueueMinutes}}

SeedRun(seed, t) ==
    [NewRun(seed.created_at) EXCEPT !.status = seed.status,
                                    !.updated_at = seed.updated_at,
                                    !.started_at = IF seed.status = "running" THEN 0 ELSE NoTime,
                                    !.celery_task_id = t]

SeedTask(seed, r) ==
    IF seed.status = "running"
    THEN [QueuedTask(r) EXCEPT !.pc = "scrape", !.hb = seed.updated_at]
    ELSE QueuedTask(r)

InitSweep ==
    /\ InitBase
    /\ now = SweepStart
    /\ job = [NoJobSelection EXCEPT !.connector = "jpmorgan"]
    /\ portal = << >>
    /\ \E f \in [SweepRuns -> SweepSeeds] :
         /\ runs = [r \in RunIds |-> IF r \in SweepRuns THEN SeedRun(f[r], r) ELSE NoDoc]
         /\ tasks = [t \in TaskIds |-> IF t \in SweepRuns THEN SeedTask(f[t], t) ELSE NoTask]

NextSweep ==
    \/ Tick
    \/ \E t \in SweepRuns :
         \/ Heartbeat(t)
         \/ TaskStart(t)
         \/ TaskSetRunning(t)
    \/ \E s \in SweepIds :
         \/ SweepZombieQuery(s)
         \/ SweepZombieSave(s)
         \/ SweepStuckQuery(s)
         \/ SweepStuckSave(s)
         \/ SweepReturn(s)

SpecSweep == InitSweep /\ [][NextSweep]_vars

\* Sweep s has the run r on the list its last query returned.
Found(sw, r) == \E i \in DOMAIN sw.found : sw.found[i].run = r

Portals == {<<"data.csv", "two.xlsx">>, <<"one.xlsx">>}

\* Values of the optional payload fields filename and selected_sheet.
PayloadFiles == {NULL, "data.csv", "two.xlsx", "one.xlsx"}
PayloadSheets == {NULL, "S2"}

ScrapedRun(files, t) ==
    [NewRun(0) EXCEPT !.status = "success", !.started_at = 0, !.finished_at = 0,
                      !.celery_task_id = t, !.files = SeqMap(OriginalEntry, files)]

InitProc ==
    /\ InitBase
    /\ now = 0
    /\ job = [NoJobSelection EXCEPT !.connector = "jpmorgan", !.enable_processing = TRUE,
                                    !.processing_script = "v1"]
    /\ portal \in Portals
    /\ runs = [r \in RunIds |-> IF r = 1 THEN ScrapedRun(portal, 1) ELSE NoDoc]
    /\ tasks = [t \in TaskIds |->
                 IF t = 1 THEN [QueuedTask(1) EXCEPT !.pc = "post", !.result = "success"]
                 ELSE NoTask]

NextProc ==
    \/ \E t \in TaskIds :
         \/ TaskPostBegin(t)
         \/ TaskPostEnd(t)
    \/ \E a \in Actors :
         \/ RapsRead(a)
         \/ PwusRead(a)
         \/ ProcStep(a)
    \/ \E a \in ReqIds, r \in RunIds, pf \in PayloadFiles, ps \in PayloadSheets :
         \/ CanCall /\ reprocess_run(a, r, pf, ps)
         \/ CanCall /\ \E n \in 1..MaxCalls :
                           reprocess_from_processed(a, r, ProcessedName(n), pf, ps)
         \/ CanCall /\ pf # NULL /\ ps # NULL /\ select_sheet_for_processing(a, r, pf, ps)
         \/ CanCall /\ pf # NULL /\ ps = NULL /\ select_file_for_processing(a, r, pf)

SpecProc == InitProc /\ [][NextProc]_vars

\* The actors with a processor child process running for run r.
InFlightOf(r) == {a \in Actors : InFlight(a) /\ acts[a].run = r}

\* C3: at most one processor execution is in flight per run, and while one
\* is in flight the run's processing_status is "processing".
C3_OneExecution ==
    \A r \in RunIds :
        /\ Cardinality(InFlightOf(r)) <= 1
        /\ InFlightOf(r) # {} => runs[r].processing_status = "processing"

\* The four processing fields of a run document.
ProcFields(doc) ==
    <<doc.processing_status, doc.selected_filename, doc.selected_sheet, doc.processing_error>>

\* In this step the process request a, which did not get the lock, returns.
LoserReturns(a) ==
    /\ acts[a].kind = "process"
    /\ acts'[a].kind = "idle"
    /\ \/ acts[a].pc = "lock"
       \/ acts[a].pc = "final_write" /\ acts[a].state = "processing"

\* C4: of two concurrent process requests only one executes the processor,
\* and the step in which the other one returns "processing" changes none of
\* processing_status, selected_filename, selected_sheet, processing_error.
C4_LoserChangesNothing ==
    [][\A a \in ReqIds :
         LoserReturns(a) =>
           /\ ProcFields(runs'[acts[a].run]) = ProcFields(runs[acts[a].run])
           /\ hist'.execs = hist.execs
      ]_vars

(***************************************************************************)
(* Specification of the run lifecycle: users trigger, stop and retry one   *)
(* run of a job with post-processing enabled; workers execute its tasks.   *)
(***************************************************************************)
LifeTasks == 1..MaxTasks

\* The run the lifecycle requests are about.
LifeRuns == {1}

\* Task ids not yet given out nor promised to a handler about to dispatch.
TaskIdsLeft ==
    Cardinality({t \in LifeTasks : tasks[t].pc = "none"})
      - Cardinality({a \in ReqIds : acts[a].pc \in {"retry_save", "dispatch"}})

InitRun ==
    /\ InitBase
    /\ now = 0
    /\ job = [NoJobSelection EXCEPT !.connector = "jpmorgan"]
    /\ portal = <<"data.csv">>
    /\ runs = [r \in RunIds |-> NoDoc]
    /\ tasks = [t \in TaskIds |-> NoTask]

NextRun ==
    \/ \E a \in ReqIds, r \in LifeRuns :
         \/ CanCall /\ TaskIdsLeft > 0 /\ trigger_run(a, r)
         \/ CanCall /\ TaskIdsLeft > 0 /\ retry_run(a, r)
         \/ CanCall /\ stop_run(a, r)
    \/ \E a \in ReqIds :
         \/ ActDispatch(a)
         \/ ActSaveId(a)
         \/ ActRetrySave(a)
         \/ ActStopSave(a)
    \/ \E t \in LifeTasks :
         \/ TaskStart(t)
         \/ TaskDiscard(t)
         \/ TaskKill(t)
         \/ TaskSetRunning(t)
         \/ TaskAcquireSkip(t)
         \/ TaskOpenSession(t)
         \/ TaskOpenSessionRaises(t)
         \/ TaskScrape(t)
         \/ TaskScrapeRaises(t)
         \/ TaskCapture(t)
         \/ TaskFinally(t)
         \/ TaskExcept(t)
         \/ TaskPostSkip(t)

SpecRun == InitRun /\ [][NextRun]_vars

\* The document says that the run was cancelled by the user.
Cancelled(doc) ==
    doc # NoDoc /\ doc.status = "failed" /\ doc.error_summary = "Cancelled by user"

\* This step is taken by a retry_run handler.
RetryStep == \E a \in ReqIds : acts[a].kind = "retry" /\ acts'[a] # acts[a]

\* C5: once a run is failed with "Cancelled by user", its status stays
\* failed in every step that is not a step of retry_run.
C5_CancelledStaysFailed ==
    [][\A r \in RunIds :
         Cancelled(runs[r]) => (runs'[r].status = "failed" \/ RetryStep)
      ]_vars

\* C7: retry_run works on a copy with attempt one higher than the stored
\* one, status queued, the error, the timestamps and the selection cleared
\* and processing_status not_required; it saves that copy, queues exactly one
\* new task of the run, and saves that task's id as celery_task_id.
C7_RetryEffects ==
    [][\A a \in ReqIds :
         /\ (acts[a].kind = "idle" /\ acts'[a].kind = "retry") =>
               LET d == acts'[a].doc IN
                 /\ d.attempt = runs[acts'[a].run].attempt + 1
                 /\ d.status = "queued"
                 /\ d.error_summary = NULL /\ d.processing_error = NULL
                 /\ d.started_at = NoTime /\ d.finished_at = NoTime
                 /\ d.selected_filename = NULL /\ d.selected_sheet = NULL
                 /\ d.processing_status = "not_required"
         /\ (acts[a].kind = "retry" /\ acts[a].pc = "retry_save" /\ acts'[a].pc = "dispatch") =>
               runs'[acts[a].run] = acts[a].doc
         /\ (acts[a].kind = "retry" /\ acts[a].pc = "dispatch" /\ acts'[a].pc = "save_id") =>
               \E t \in TaskIds :
                  /\ tasks[t].pc = "none" /\ tasks'[t].pc = "queued"
                  /\ tasks'[t].run = acts[a].run
                  /\ acts'[a].task = t
                  /\ \A u \in TaskIds : u # t => tasks'[u] = tasks[u]
         /\ (acts[a].kind = "retry" /\ acts[a].pc = "save_id" /\ acts'[a].kind = "idle") =>
               /\ runs'[acts[a].run].celery_task_id = acts[a].task
               /\ runs'[acts[a].run].status = "queued"
               /\ runs'[acts[a].run].attempt = acts[a].doc.attempt
               /\ tasks' = tasks
      ]_vars

\* A retry of the run has completed: second attempt, queued, with the id of
\* the second task, and that task waits in the queue.
C7_Witness ==
    /\ \A a \in ReqIds : acts[a].kind = "idle"
    /\ runs[1] # NoDoc
    /\ runs[1].attempt = 2
    /\ runs[1].status = "queued"
    /\ runs[1].celery_task_id = 2
    /\ tasks[2].pc = "queued"
    /\ tasks[2].run = 1
    /\ runs[1].error_summary = NULL

\* C8: retry_run is taken only for a run whose stored status is failed.
C8_RetryOnlyFailed ==
    [][\A a \in ReqIds :
         (acts[a].kind = "idle" /\ acts'[a].kind = "retry") =>
            runs[acts'[a].run].status = "failed"
      ]_vars

\* The tasks of run r a worker is executing.
ExecutingOf(r) == {t \in TaskIds : tasks[t].run = r /\ tasks[t].pc \in Executing}

\* C9: at most one scrape_task instance of a run is executing.
C9_OneTaskPerRun == \A r \in RunIds : Cardinality(ExecutingOf(r)) <= 1

(***************************************************************************)
(* Specification of cancellation: one run of a job with post-processing    *)
(* enabled is triggered and stopped; no retry.                             *)
(***************************************************************************)
InitCancel ==
    /\ InitBase
    /\ now = 0
    /\ \E c \in {"jpmorgan", "unknown"} :
         job = [NoJobSelection EXCEPT !.connector = c, !.enable_processing = TRUE,
                                      !.processing_script = "v1"]
    /\ portal = <<"data.csv">>
    /\ runs = [r \in RunIds |-> NoDoc]
    /\ tasks = [t \in TaskIds |-> NoTask]

NextCancel ==
    \/ \E a \in ReqIds, r \in LifeRuns :
         \/ CanCall /\ trigger_run(a, r)
         \/ CanCall /\ stop_run(a, r)
    \/ \E a \in ReqIds :
         \/ ActDispatch(a)
         \/ ActSaveId(a)
         \/ ActStopSave(a)
    \/ \E t \in LifeTasks :
         \/ TaskStart(t)
         \/ TaskDiscard(t)
         \/ TaskKill(t)
         \/ TaskSetRunning(t)
         \/ TaskConnectorMissing(t)
         \/ TaskAcquireSkip(t)
         \/ TaskOpenSession(t)
         \/ TaskOpenSessionRaises(t)
         \/ TaskScrape(t)
         \/ TaskScrapeRaises(t)
         \/ TaskCapture(t)
         \/ TaskFinally(t)
         \/ TaskExcept(t)
         \/ TaskPostBegin(t)
         \/ TaskPostEnd(t)
    \/ \E a \in Actors :
         \/ RapsRead(a)
         \/ ProcStep(a)

SpecCancel == InitCancel /\ [][NextCancel]_vars

\* The connector's scrape has been called by task t.
ScrapeAttempted(t) ==
    \/ tasks[t].pc \in {"scrape", "capture", "finally", "post", "post_wait"}
    \/ tasks[t].result # NULL
    \/ tasks[t].raised

\* C6: for a task that was waiting in the queue when its run was cancelled,
\* the connector is never called, no processing call is made, no processor
\* executes, and the run's processing_status stays not_required.
C6_NoWorkAfterCancel ==
    \A t \in hist.cancelled :
        /\ ~ScrapeAttempted(t)
        /\ acts[TaskActor(t)].kind = "idle"
        /\ hist.execs = 0
        /\ runs[tasks[t].run].processing_status = "not_required"

(***************************************************************************)
(* Specification of retry under the sweep: one run that failed or is       *)
(* queued or running, created long ago or just now; users retry it when it *)
(* is failed, the clock advances, cleanup_stale_runs runs periodically.    *)
(***************************************************************************)
\* The run states the retry specification starts from.
RequeueSeeds ==
    SweepSeeds
    \cup
    {[status |-> "failed", created_at |-> c, updated_at |-> c] :
        c \in {SweepStart - QueueMinutes - 1, SweepStart - 1}}

\* The task of a seed run: ended for a failed run.
RequeueTask(seed, r) ==
    IF seed.status = "failed"
    THEN [QueuedTask(r) EXCEPT !.pc = "done", !.result = "failure"]
    ELSE SeedTask(seed, r)

RequeueRun(seed, t) ==
    IF seed.status = "failed"
    THEN [SeedRun(seed, t) EXCEPT !.error_summary = "scrape_error",
                                  !.started_at = seed.created_at,
                                  !.finished_at = seed.created_at]
    ELSE SeedRun(seed, t)

InitRequeue ==
    /\ InitBase
    /\ now = SweepStart
    /\ job = [NoJobSelection EXCEPT !.connector = "jpmorgan"]
    /\ portal = << >>
    /\ \E seed \in RequeueSeeds :
         /\ runs = [r \in RunIds |-> IF r \in LifeRuns THEN RequeueRun(seed, r) ELSE NoDoc]
         /\ tasks = [t \in TaskIds |-> IF t \in LifeRuns THEN RequeueTask(seed, t) ELSE NoTask]

NextRequeue ==
    \/ Tick
    \/ \E a \in ReqIds, r \in LifeRuns :
         CanCall /\ TaskIdsLeft > 0 /\ runs[r].status = "failed" /\ retry_run(a, r)
    \/ \E a \in ReqIds :
         \/ ActRetrySave(a)
         \/ ActDispatch(a)
         \/ ActSaveId(a)
    \/ \E t \in LifeTasks :
         \/ Heartbeat(t)
         \/ TaskStart(t)
         \/ TaskSetRunning(t)
    \/ \E s \in SweepIds :
         \/ SweepZombieQuery(s)
         \/ SweepZombieSave(s)
         \/ SweepStuckQuery(s)
         \/ SweepStuckSave(s)
         \/ SweepReturn(s)

SpecRequeue == InitRequeue /\ [][NextRequeue]_vars

\* The time since which run r has been waiting in queued: its last retry,
\* or its creation when it was never retried.
QueuedSince(r) ==
    IF hist.requeued[r] # NoTime THEN hist.requeued[r] ELSE runs[r].created_at

\* C11: the stuck-in-queue query of cleanup_stale_runs returns only runs that
\* are queued and have been waiting, since their creation or their last
\* retry, for more than 1 hour.
C11_StuckOnlyAfterHour ==
    [][\A s \in SweepIds :
         (sweeps[s].pc = "zombies" /\ sweeps'[s].pc = "stuck") =>
            \A r \in RunIds :
               Found(sweeps'[s], r) =>
                  (runs[r].status = "queued" /\ QueuedSince(r) < now - 60)
      ]_vars

(***************************************************************************)
(* Status events and log lines of a run                                    *)
(***************************************************************************)
\* C12: a step that changes the stored status of a run publishes one event
\* with the run id and the new status on run_updates.
C12_StatusEventPublished ==
    [][\A r \in RunIds :
         (runs[r] # NoDoc /\ runs'[r] # NoDoc /\ runs'[r].status # runs[r].status) =>
            channel' = {[run_id |-> r, status |-> runs'[r].status]}
      ]_vars

\* The lines of a document that a task pushed.
TaskLines(doc) == {l \in doc.logs : l.by # NoId}

\* C13: within an attempt, no step removes a log line that a task pushed.
C13_LogsAppendOnly ==
    [][\A r \in RunIds :
         (runs[r] # NoDoc /\ runs'[r] # NoDoc /\ runs'[r].attempt = runs[r].attempt) =>
            TaskLines(runs[r]) \subseteq runs'[r].logs
      ]_vars

(***************************************************************************)
(* Initialization of the slot pool                                         *)
(***************************************************************************)
\* The tasks inside the initialization branch of _ensure_selenium_slots.
Initializers == {t \in TaskIds : tasks[t].pc \in {"ensure_delete", "ensure_rpush"}}

\* The initialization has been done: the key is set and its setter is out of
\* the branch.
PoolFilled == slotInitKey /\ Initializers = {}

\* The tokens in the list and in the hands of the tasks are the N tokens,
\* each of them once.
TokensOnce ==
    /\ Len(slotList) + Cardinality(Holders) = SELENIUM_MAX_SLOTS
    /\ Range(slotList) \cup {tasks[t].slot_token : t \in Holders} = Range(SlotTokens)

\* C14: at most one caller initializes the pool; its DELETE and RPUSH find
\* the list empty and no token taken, and the RPUSH leaves the N distinct
\* tokens; once the pool is filled no caller enters the initialization again
\* and the N tokens stay, each once, in the list or with the tasks.
C14_PoolFilledOnce ==
    [][/\ Cardinality(Initializers') <= 1
       /\ \A t \in TaskIds :
            /\ (tasks[t].pc = "acquire" /\ tasks'[t].pc = "ensure_delete") =>
                  (~slotInitKey /\ Initializers = {})
            /\ (tasks[t].pc \in {"ensure_delete", "ensure_rpush"} /\ tasks'[t] # tasks[t]) =>
                  /\ slotList = << >>
                  /\ \A u \in TaskIds : tasks[u].slot_token = NoToken
            /\ (tasks[t].pc = "ensure_rpush" /\ tasks'[t].pc = "brpop") =>
                  /\ Len(slotList') = SELENIUM_MAX_SLOTS
                  /\ Cardinality(Range(slotList')) = SELENIUM_MAX_SLOTS
       /\ PoolFilled => PoolFilled'
       /\ PoolFilled' => TokensOnce'
      ]_vars

\* After the fill by one caller, a second caller holds a token and a third
\* one has already pushed its token back.
C14_Witness ==
    /\ PoolFilled
    /\ \E t1, t2 \in SlotTasks :
         /\ t1 # t2
         /\ Holding(t1)
         /\ tasks[t2].released
    /\ \E t \in SlotTasks : tasks[t].pc = "brpop"

(***************************************************************************)
(* Selection of the file and the sheet                                     *)
(***************************************************************************)
\* The file the stated priority gives: the run's own selection, else the
\* job's last selection, when it is a captured file, else the only file.
PriorityFile(doc, j) ==
    LET names == OriginalNames(doc) IN
      IF doc.selected_filename # NULL /\ doc.selected_filename \in Range(names)
      THEN doc.selected_filename
      ELSE IF j.last_selected_filename # NULL /\ j.last_selected_filename \in Range(names)
           THEN j.last_selected_filename
      ELSE IF Len(names) = 1 THEN names[1]
      ELSE NULL

\* The sheet the stated priority gives for a workbook: the run's own
\* selection when it is a live sheet, else the job's last selection or an
\* alias matching a live sheet, else the only sheet.
PrioritySheet(doc, j, fn) ==
    LET opts == list_sheet_names(fn)
        pick == _pick_sheet_by_aliases(opts, j.last_selected_sheet, j.sheet_aliases)
    IN  IF doc.selected_sheet # NULL /\ doc.selected_sheet \in Range(opts)
        THEN doc.selected_sheet
        ELSE IF pick # NULL THEN pick
        ELSE IF Len(opts) = 1 THEN opts[1]
        ELSE NULL

\* C15: resolve_and_process_post_scrape on a run with originals settles on
\* the file and the sheet of the stated priority and goes on to the lock, or
\* ends in pending_file_selection / pending_sheet_selection when the priority
\* gives none.
C15_SelectionPriority ==
    [][\A a \in Actors :
         LET doc == runs[acts[a].run]
             fn == PriorityFile(doc, job)
             sh == PrioritySheet(doc, job, fn)
         IN  ( /\ acts[a].pc = "raps_read" /\ acts'[a].pc # "raps_read"
               /\ doc # NoDoc /\ OriginalNames(doc) # << >> ) =>
               IF fn = NULL THEN acts'[a].state = "pending_file_selection"
               ELSE IF ~is_excel_filename(fn)
                    THEN acts'[a].pc = "lock" /\ acts'[a].filename = fn
               ELSE IF list_sheet_names(fn) = << >> THEN acts'[a].state = "failed"
               ELSE IF sh = NULL THEN acts'[a].state = "pending_sheet_selection"
               ELSE acts'[a].pc = "lock" /\ acts'[a].filename = fn /\ acts'[a].sheet = sh
      ]_vars

\* The file is ambiguous: several originals, and neither the request (pf),
\* the run nor the job names one of them.
FileAmbiguous(doc, j, pf) ==
    /\ Len(OriginalNames(doc)) > 1
    /\ pf = NULL
    /\ PriorityFile(doc, j) = NULL

\* The sheet of workbook fn is ambiguous: several sheets, and the sheet asked
\* for (sh) is absent or matches no live sheet, directly or through the
\* job's aliases.
SheetAmbiguous(j, fn, sh) ==
    /\ is_excel_filename(fn)
    /\ Len(list_sheet_names(fn)) > 1
    /\ \/ sh = NULL
       \/ /\ sh \notin Range(list_sheet_names(fn))
          /\ _pick_sheet_by_aliases(list_sheet_names(fn), sh, j.sheet_aliases) = NULL

PendingStates == {"pending_file_selection", "pending_sheet_selection"}

\* C16: a process request or a post-scrape call that finds the file or the
\* sheet ambiguous decides pending_file_selection / pending_sheet_selection
\* and does not go to the lock; the call then writes that state and returns
\* without starting a processor.
C16_AmbiguousStaysPending ==
    [][\A a \in Actors :
         /\ ( /\ acts[a].kind = "idle" /\ acts'[a].kind = "process"
              /\ FileAmbiguous(runs[acts'[a].run], job, acts'[a].filename) ) =>
                 (acts'[a].pc = "final_write" /\ acts'[a].state = "pending_file_selection")
         /\ ( /\ acts[a].kind = "process" /\ acts[a].pc = "pwus_read"
              /\ acts'[a] # acts[a]
              /\ runs[acts[a].run] # NoDoc
              /\ acts[a].filename \in Range(OriginalNames(runs[acts[a].run]))
              /\ SheetAmbiguous(job, acts[a].filename, acts[a].sheet) ) =>
                 (acts'[a].pc = "final_write" /\ acts'[a].state = "pending_sheet_selection")
         /\ ( /\ acts[a].pc = "raps_read" /\ acts'[a] # acts[a]
              /\ runs[acts[a].run] # NoDoc
              /\ FileAmbiguous(runs[acts[a].run], job, NULL) ) =>
                 (acts'[a].pc = "final_write" /\ acts'[a].state = "pending_file_selection")
         /\ ( /\ acts[a].pc = "raps_read" /\ acts'[a] # acts[a]
              /\ runs[acts[a].run] # NoDoc
              /\ acts'[a].filename # NULL
              /\ runs[acts[a].run].selected_sheet = NULL
              /\ SheetAmbiguous(job, acts'[a].filename, job.last_selected_sheet) ) =>
                 (acts'[a].pc = "final_write" /\ acts'[a].state = "pending_sheet_selection")
         /\ ( /\ acts[a].pc = "final_write" /\ acts[a].state \in PendingStates
              /\ acts'[a] # acts[a] ) =>
                 /\ runs'[acts[a].run].processing_status = acts[a].state
                 /\ acts'[a].pc \in {"idle", "returned"}
                 /\ hist'.execs = hist.execs
      ]_vars

(***************************************************************************)
(* Values of processing_status                                             *)
(***************************************************************************)
SixStates ==
    {"not_required", "pending_file_selection", "pending_sheet_selection",
     "processing", "processed", "failed"}

\* C17, as stated: the processing_status of every run is one of
\* not_required, pending_file_selection, pending_sheet_selection,
\* processing, processed, failed.
C17_SixStates ==
    \A r \in RunIds : runs[r] # NoDoc => runs[r].processing_status \in SixStates

\* C17, amended: the processing_status of every run is one of those six
\* values or pending_reprocess.
C17_SevenStates ==
    \A r \in RunIds :
        runs[r] # NoDoc => runs[r].processing_status \in SixStates \cup {"pending_reprocess"}

\* select-file has stored the choice of the delimited file: the run is in
\* pending_reprocess.
C17_Witness ==
    /\ runs[1].processing_status = "pending_reprocess"
    /\ runs[1].selected_filename = "data.csv"
    /\ job.last_selected_filename = "data.csv"

(***************************************************************************)
(* select-file and select-sheet                                            *)
(***************************************************************************)
SelectKinds == {"select_file", "select_sheet"}

ReplayJobs ==
    { [NoJobSelection EXCEPT !.connector = "jpmorgan", !.enable_processing = TRUE,
                             !.processing_script = sc] : sc \in {"v1", "v2"} }
       \cup {[NoJobSelection EXCEPT !.connector = "jpmorgan"]}

\* The files of the run: two originals, an output stored without the
\* snapshot fields, and the output of the earlier processing with script v1.
ReplayFiles ==
    << OriginalEntry("data.csv"), OriginalEntry("two.xlsx"),
       [ProcessedEntry("old.csv", NULL, NULL) EXCEPT !.is_latest = FALSE],
       ProcessedEntry("prev.csv", "v1", "job") >>

\* Values of processed_filename in the payload of reprocess-from-processed.
ReplayNames == {"old.csv", "prev.csv", "gone.csv"} \cup {ProcessedName(n) : n \in 1..MaxCalls}

InitReplay ==
    /\ InitBase
    /\ now = 0
    /\ job \in ReplayJobs
    /\ portal = <<"data.csv", "two.xlsx">>
    /\ runs = [r \in RunIds |->
                 IF r = 1
                 THEN [ScrapedRun(portal, 1) EXCEPT !.files = ReplayFiles,
                                                    !.processing_status = "processed",
                                                    !.selected_filename = "data.csv"]
                 ELSE NoDoc]
    /\ tasks = [t \in TaskIds |-> NoTask]

NextReplay ==
    \/ \E a \in ReqIds :
         \/ PwusRead(a)
         \/ ProcStep(a)
    \/ \E a \in ReqIds, r \in RunIds, pf \in PayloadFiles, ps \in PayloadSheets :
         \/ CanCall /\ reprocess_run(a, r, pf, ps)
         \/ CanCall /\ \E pname \in ReplayNames :
                           reprocess_from_processed(a, r, pname, pf, ps)
    \/ \E a \in ReqIds, r \in RunIds :
         CanCall /\ list_downloads(a, r)
    \/ \E r \in RunIds, f \in ReplayNames :
         ArtifactRemoved(r, f)

SpecReplay == InitReplay /\ [][NextReplay]_vars

\* The snapshot stored on the first processed entry of the run called name,
\* NULL when there is no such entry or it has no snapshot.
StoredSnapshot(doc, name) ==
    IF ProcessedNamed(doc, name) = {} THEN NULL
    ELSE doc.files[CHOOSE i \in ProcessedNamed(doc, name) :
                      \A k \in ProcessedNamed(doc, name) : i <= k].snapshot

\* C19: a reprocess-from-processed request is taken only when the named
\* processed entry exists and has a snapshot; the call executes that snapshot
\* text, whatever the job's script or switch is, and the entry it appends
\* carries the same text with source "snapshot".
C19_SnapshotReplayed ==
    [][\A a \in ReqIds :
         LET r == acts'[a].run IN
         /\ (acts[a].kind = "idle" /\ acts'[a].kind = "reprocess_snapshot") =>
               /\ StoredSnapshot(runs[r], acts'[a].named) # NULL
               /\ acts'[a].pc = "pwus_read" =>
                     /\ acts'[a].script = StoredSnapshot(runs[r], acts'[a].named)
                     /\ acts'[a].source = "snapshot"
         /\ (acts[a].kind = "reprocess_snapshot" /\ acts'[a].kind = "reprocess_snapshot") =>
               /\ acts'[a].script = acts[a].script
               /\ acts'[a].source = acts[a].source
               /\ acts'[a].pc = "exec" => acts'[a].script # NULL
         /\ (acts[a].kind = "reprocess_snapshot" /\ acts[a].pc = "append_write"
                                                /\ acts'[a].pc = "set_processed") =>
               LET fs == runs'[acts[a].run].files IN
                 /\ fs[Len(fs)].filename = acts[a].out
                 /\ fs[Len(fs)].snapshot = acts[a].script
                 /\ fs[Len(fs)].source = "snapshot"
      ]_vars

\* The job's script is v2; the run was processed with it, and after that a
\* replay of prev.csv appended an output with the v1 snapshot.
C19_Witness ==
    /\ job.processing_script = "v2"
    /\ \E i, k \in DOMAIN runs[1].files :
         /\ i < k
         /\ runs[1].files[i].source = "job" /\ runs[1].files[i].snapshot = "v2"
         /\ runs[1].files[k].source = "snapshot" /\ runs[1].files[k].snapshot = "v1"
         /\ runs[1].files[k].is_latest

\* The processed entries of a run document that are flagged is_latest.
LatestNames(doc) ==
    {doc.files[i].filename : i \in {k \in DOMAIN doc.files :
        doc.files[k].file_type = "processed" /\ doc.files[k].is_latest}}

\* C20: once a batch has been appended to a run, every processed entry
\* flagged is_latest is an entry of the most recent batch, and the entry of
\* the most recent batch is listed and flagged as long as its file exists;
\* also when list_downloads rewrites Run.files around the append.
C20_LatestIsLastBatch ==
    \A r \in RunIds :
        (runs[r] # NoDoc /\ hist.batch # NULL) =>
            /\ LatestNames(runs[r]) \subseteq {hist.batch}
            /\ hist.batch \notin missing => hist.batch \in LatestNames(runs[r])

(***************************************************************************)
(* Specification of the output validation: the processor has ended, its    *)
(* outputs have been promoted and renamed, and process_files counts the    *)
(* rows of the input, validates the outputs and returns to its caller.     *)
(***************************************************************************)
\* Rows a file of the model holds at most, and outputs of one attempt.
MaxRows == 2
MaxOutputs == 2

\* The selected original: present or not in the original directory, its
\* suffix, whether pandas can read it, and its rows.
InputFiles ==
    [present : BOOLEAN, ext : {"csv", "xlsx", "txt"}, readable : BOOLEAN, rows : 0..MaxRows]

\* An output of the processor: its suffix, whether pandas can parse it,
\* whether it has all of the required columns, and its rows.
OutputFiles ==
    [ext : {"csv", "xlsx"}, readable : BOOLEAN, complete : BOOLEAN, rows : 0..MaxRows]

\* The outputs of one attempt, in the order of their names.
OutputLists == UNION {[1..n -> OutputFiles] : n \in 0..MaxOutputs}

\* FileProcessorService._count_input_rows: None (NoCount) when the file is
\* absent, cannot be read or is neither a workbook nor a CSV file.
NoCount == -1
_count_input_rows(input) ==
    IF ~input.present THEN NoCount
    ELSE IF input.ext \in {"xlsx", "csv"}
         THEN IF input.readable THEN input.rows ELSE NoCount
         ELSE NoCount

\* The checks of _validate_processed_outputs on one parsed CSV output.
CsvVerdict_Strict(out, expected_input_rows) ==
    IF ~out.readable THEN "unreadable"
    ELSE IF ~out.complete THEN "missing_columns"
    ELSE IF out.rows = 0 THEN "zero_rows"
    ELSE IF expected_input_rows # NoCount /\ expected_input_rows > 0
              /\ out.rows <= expected_input_rows THEN "data_loss"
    ELSE NULL
CsvVerdict(out, expected_input_rows) ==
    IF ~out.readable THEN "unreadable"
    ELSE IF ~out.complete THEN "missing_columns"
    ELSE IF out.rows = 0 THEN "zero_rows"
    ELSE IF expected_input_rows # NoCount /\ expected_input_rows > 0
              /\ out.rows < expected_input_rows THEN "data_loss"
    ELSE NULL

\* FileProcessorService._validate_processed_outputs: the loop skips what is
\* not a CSV file and returns at the first CSV file, with its verdict.
RECURSIVE ValidateLoop(_, _)
ValidateLoop(file_paths, expected_input_rows) ==
    IF file_paths = << >> THEN NULL
    ELSE IF Head(file_paths).ext # "csv"
         THEN ValidateLoop(Tail(file_paths), expected_input_rows)
         ELSE CsvVerdict(Head(file_paths), expected_input_rows)

_validate_processed_outputs(file_paths, expected_input_rows) ==
    IF file_paths = << >> THEN "no_output"
    ELSE ValidateLoop(file_paths, expected_input_rows)

\* process_files after the promotion: the rows of the input are counted, the
\* outputs are validated, and the paths or the error are returned.
ValidateOutputs ==
    /\ call.op = "promoted"
    /\ LET expected == _count_input_rows(call.input)
           error == _validate_processed_outputs(call.outs, expected) IN
         call' = [call EXCEPT !.op = "returned", !.expected = expected, !.error = error,
                              !.paths = IF error = NULL THEN call.outs ELSE << >>]
    /\ channel' = {}
    /\ UNCHANGED <<now, runs, job, slotInitKey, slotList, tasks, revoked, acts, portal,
                   missing, sweeps, hist>>

\* The caller of process_files: without paths the processing has failed with
\* the error, else the paths are appended to Run.files.
AttachOutputs ==
    /\ call.op = "returned"
    /\ call' = [call EXCEPT !.op = "done",
                            !.attached = call.paths,
                            !.state = IF call.paths = << >> THEN "failed" ELSE "processed"]
    /\ channel' = {}
    /\ UNCHANGED <<now, runs, job, slotInitKey, slotList, tasks, revoked, acts, portal,
                   missing, sweeps, hist>>

InitValidate ==
    /\ slotInitKey = FALSE
    /\ slotList = << >>
    /\ revoked = {}
    /\ channel = {}
    /\ acts = [a \in Actors |-> IdleActor]
    /\ sweeps = [s \in SweepIds |-> IdleSweep]
    /\ missing = {}
    /\ hist = [calls |-> 0, cancelled |-> {}, execs |-> 0, nproc |-> 0,
               requeued |-> [r \in RunIds |-> NoTime], batch |-> NULL]
    /\ now = 0
    /\ job = [NoJobSelection EXCEPT !.connector = "jpmorgan", !.enable_processing = TRUE,
                                    !.processing_script = "v1"]
    /\ portal = << >>
    /\ runs = [r \in RunIds |-> NoDoc]
    /\ tasks = [t \in TaskIds |-> NoTask]
    /\ \E input \in InputFiles, outs \in OutputLists :
         call = [op |-> "promoted", input |-> input, outs |-> outs, expected |-> NoCount,
                 error |-> NULL, paths |-> << >>, attached |-> << >>, state |-> NULL]

NextValidate ==
    \/ ValidateOutputs
    \/ AttachOutputs

SpecValidate == InitValidate /\ [][NextValidate]_vars

\* process_files has returned for an attempt with a single CSV output that
\* parses, and the rows of the input were measured.
OneCsvMeasured ==
    /\ call.op \in {"returned", "done"}
    /\ Len(call.outs) = 1
    /\ call.outs[1].ext = "csv" /\ call.outs[1].readable
    /\ call.expected # NoCount

FailsChecks(out, expected) ==
    /\ out.readable
    /\ \/ ~out.complete
       \/ out.rows = 0
       \/ expected # NoCount /\ out.rows < expected

\* C22: when an attempt produced several CSV outputs and any one of them
\* lacks a required column, has no rows or has fewer rows than the input,
\* the validation fails; and after a failed validation none of the outputs
\* is attached to Run.files.
C22_EveryOutputValidated ==
    (/\ call.op \in {"returned", "done"}
     /\ Len(call.outs) >= 2
     /\ \A i \in DOMAIN call.outs : call.outs[i].ext = "csv") =>
        /\ (\E i \in DOMAIN call.outs : FailsChecks(call.outs[i], call.expected)) =>
              call.error # NULL
        /\ (call.op = "done" /\ call.error # NULL) => call.attached = << >>

(***************************************************************************)
(* Specification of one processor execution: the lock is held, and         *)
(* process_files runs the script in a child process whose working          *)
(* directory is a staging directory inside the processed directory.        *)
(***************************************************************************)
\* Files the processed directory may hold before the attempt, and files the
\* script may write into the staging directory.
DurableNames == {"a.csv", "p.csv"}
StagedNames == {"a.csv", "b.csv"}

\* target = final_processed_dir / f"{stem}_{counter:02d}{suffix}" for the
\* first counter that is free.
Numbered(f, dir) ==
    LET first == [n \in {"a.csv", "b.csv", "p.csv"} |->
                    IF n = "a.csv" THEN "a_01.csv"
                    ELSE IF n = "b.csv" THEN "b_01.csv" ELSE "p_01.csv"]
        second == [n \in {"a.csv", "b.csv", "p.csv"} |->
                    IF n = "a.csv" THEN "a_02.csv"
                    ELSE IF n = "b.csv" THEN "b_02.csv" ELSE "p_02.csv"]
    IN  IF f \notin dir THEN f
        ELSE IF first[f] \notin dir THEN first[f] ELSE second[f]

\* The names of a set of files in sorted order.
RECURSIVE Sorted(_)
Sorted(S) ==
    IF S = {} THEN << >>
    ELSE LET order == <<"a.csv", "a_01.csv", "a_02.csv", "b.csv", "b_01.csv", "b_02.csv",
                        "p.csv", "p_01.csv", "p_02.csv">>
             least == CHOOSE x \in S :
                        \A y \in S : \E i, k \in DOMAIN order :
                                        order[i] = x /\ order[k] = y /\ i <= k
         IN  <<least>> \o Sorted(S \ {least})

\* _execute_processor, the promotion: each staged file is moved into the
\* processed directory, under a numbered name when its name is taken.
RECURSIVE Promote(_, _, _)
Promote(staged, dir, promoted) ==
    IF staged = << >> THEN [dir |-> dir, promoted_files |-> promoted]
    ELSE LET target == Numbered(Head(staged), dir) IN
           Promote(Tail(staged), dir \cup {target}, Append(promoted, target))

\* _normalize_processed_names: the outputs get the stamped name, with an
\* index when there are several and a collision number when it is taken.
RECURSIVE Normalize(_, _, _, _)
Normalize(paths, idx, dir, renamed) ==
    IF paths = << >> THEN [dir |-> dir, renamed |-> renamed]
    ELSE LET stamped == IF Len(paths) + idx - 1 > 1
                        THEN (IF idx = 1 THEN "p_01.csv" ELSE "p_02.csv")
                        ELSE "p.csv"
             rest == dir \ {Head(paths)}
             target == IF stamped = Head(paths) THEN stamped
                       ELSE IF stamped \in rest /\ stamped = "p.csv" THEN Numbered("p.csv", rest)
                       ELSE stamped
         IN  Normalize(Tail(paths), idx + 1, rest \cup {target}, Append(renamed, target))

\* An execution not started: the processed directory, no staging directory.
NewExec(dir) ==
    [ op |-> "start", before |-> dir, dir |-> dir, staging |-> FALSE, staged |-> {},
      subdir |-> FALSE, outcome |-> NULL, paths |-> << >>, error |-> NULL ]

\* The run the execution belongs to: the lock is held, the processed
\* directory's files are listed on the run.
ExecRun(dir) ==
    [ScrapedRun(<<"data.csv">>, 1) EXCEPT
        !.processing_status = "processing", !.selected_filename = "data.csv",
        !.files = @ \o SeqMap(LAMBDA f : ProcessedEntry(f, "v1", "job"), Sorted(dir))]

ExecFrame ==
    <<now, job, slotInitKey, slotList, tasks, revoked, acts, portal, missing, sweeps, hist>>

\* _execute_processor: the staging directory is made and the child starts.
ExecStart ==
    /\ call.op = "start"
    /\ call' = [call EXCEPT !.op = "child", !.staging = TRUE]
    /\ channel' = {}
    /\ UNCHANGED <<ExecFrame, runs>>

\* The child process: the script writes files, and possibly a directory,
\* into its working directory; it exits with zero or not, or does not end
\* within the timeout and is killed.
ChildEnds ==
    /\ call.op = "child"
    /\ \E staged \in SUBSET StagedNames, subdir \in BOOLEAN,
          outcome \in {"exit_zero", "exit_nonzero", "timeout"} :
         call' = [call EXCEPT !.op = IF outcome = "exit_zero" THEN "promote" ELSE "finally",
                              !.staged = staged, !.subdir = subdir, !.outcome = outcome,
                              !.error = IF outcome = "exit_nonzero" THEN "processor_failed"
                                        ELSE IF outcome = "timeout" THEN "processor_timeout"
                                        ELSE NULL]
    /\ channel' = {}
    /\ UNCHANGED <<ExecFrame, runs>>

\* _execute_processor after exit code 0: the staged files are promoted.
ExecPromote ==
    /\ call.op = "promote"
    /\ LET p == Promote(Sorted(call.staged), call.dir, << >>) IN
         call' = [call EXCEPT !.op = "finally", !.dir = p.dir, !.staged = {},
                              !.paths = p.promoted_files]
    /\ channel' = {}
    /\ UNCHANGED <<ExecFrame, runs>>

\* The finally block: the files left in the staging directory are unlinked,
\* then rmdir removes the directory when it is empty; it stays when the
\* script left a directory in it, which unlink does not remove.
StagingAfterCleanup(c) == c.subdir

ExecFinally ==
    /\ call.op = "finally"
    /\ call' = [call EXCEPT !.op = IF call.outcome = "exit_zero" THEN "normalize" ELSE "except",
                            !.staged = {}, !.staging = StagingAfterCleanup(call)]
    /\ channel' = {}
    /\ UNCHANGED <<ExecFrame, runs>>

\* process_files after a successful execution: the outputs are renamed and
\* validated; a failed validation returns no path and its error.
ExecNormalize ==
    /\ call.op = "normalize"
    /\ \E valid \in BOOLEAN :
         LET n == Normalize(call.paths, 1, call.dir, << >>) IN
           call' = [call EXCEPT !.op = "returned", !.dir = n.dir,
                                !.paths = IF valid /\ n.renamed # << >> THEN n.renamed ELSE << >>,
                                !.error = IF n.renamed = << >> THEN "no_output"
                                          ELSE IF valid THEN NULL ELSE "validation_failed"]
    /\ channel' = {}
    /\ UNCHANGED <<ExecFrame, runs>>

\* process_files, except Exception: no path, the text of the exception.
ExecExcept ==
    /\ call.op = "except"
    /\ call' = [call EXCEPT !.op = "returned", !.paths = << >>]
    /\ channel' = {}
    /\ UNCHANGED <<ExecFrame, runs>>

\* The caller after process_files: failed with the error when there is no
\* path, else the outputs are appended to Run.files and the run is processed.
ExecCaller ==
    /\ call.op = "returned"
    /\ runs' = IF call.paths = << >>
               THEN UpdateRun(runs, 1, ProcessingState("failed", "data.csv", NULL, call.error))
               ELSE UpdateRun(runs, 1,
                      [ProcessingState("processed", "data.csv", NULL, NULL) EXCEPT
                          !.files = ClearLatest(runs[1].files)
                                       \o SeqMap(LAMBDA f : ProcessedEntry(f, "v1", "job"),
                                                 call.paths)])
    /\ call' = [call EXCEPT !.op = "done"]
    /\ channel' = {}
    /\ UNCHANGED ExecFrame

InitExec ==
    /\ slotInitKey = FALSE
    /\ slotList = << >>
    /\ revoked = {}
    /\ channel = {}
    /\ acts = [a \in Actors |-> IdleActor]
    /\ sweeps = [s \in SweepIds |-> IdleSweep]
    /\ missing = {}
    /\ hist = [calls |-> 0, cancelled |-> {}, execs |-> 0, nproc |-> 0,
               requeued |-> [r \in RunIds |-> NoTime], batch |-> NULL]
    /\ now = 0
    /\ job = [NoJobSelection EXCEPT !.connector = "jpmorgan", !.enable_processing = TRUE,
                                    !.processing_script = "v1"]
    /\ portal = <<"data.csv">>
    /\ tasks = [t \in TaskIds |-> NoTask]
    /\ \E dir \in SUBSET DurableNames :
         /\ call = NewExec(dir)
         /\ runs = [r \in RunIds |-> IF r = 1 THEN ExecRun(dir) ELSE NoDoc]

NextExec ==
    \/ ExecStart
    \/ ChildEnds
    \/ ExecPromote
    \/ ExecFinally
    \/ ExecNormalize
    \/ ExecExcept
    \/ ExecCaller

SpecExec == InitExec /\ [][NextExec]_vars

\* C23: after an attempt whose child process exited non-zero or was killed
\* at the timeout, the processed directory holds the files it held before,
\* the staging directory is gone, Run.files is as before, and the run's
\* processing_status is failed with the error text as processing_error.
C23_FailedAttemptLeavesNothing ==
    (call.op = "done" /\ call.outcome \in {"exit_nonzero", "timeout"}) =>
        /\ call.dir = call.before
        /\ ~call.staging
        /\ runs[1].files = ExecRun(call.before).files
        /\ runs[1].processing_status = "failed"
        /\ runs[1].processing_error = call.error

(***************************************************************************)
(* Specification of the script compiler: two visual configs are compiled,  *)
(* one after the other, by build_script_from_processing_config.            *)
(***************************************************************************)
\* Keys a config of the model may carry: three keys of
\* DEFAULT_VISUAL_CONFIG, in its order, and one key it does not know.
ConfigKeys == <<"ativo_mode", "pu_cols", "only_enabled">>
RawKeys == Range(ConfigKeys) \cup {"extra"}

\* JSON values of a config, written as in the JSON text.
RawValues == {"false", "null", "'compose'"}

\* Keys of a raw config of the model, at most.
MaxPairs == 2

\* A raw config: its items in the order of the request body, keys distinct.
RawConfigs ==
    UNION {{c \in [1..n -> [k : RawKeys, v : RawValues]] :
              \A i, j \in 1..n : i # j => c[i].k # c[j].k} : n \in 0..MaxPairs}

\* DEFAULT_VISUAL_CONFIG (the three keys of the model).
DEFAULT_VISUAL_CONFIG ==
    << [k |-> "ativo_mode", v |-> "'direct'"], [k |-> "pu_cols", v |-> "'pu'"],
       [k |-> "only_enabled", v |-> "false"] >>

\* bool(v) and  str(v) if v is not None else ""  on the values of the model.
Bool(v) == IF v \in {"false", "null", "''"} THEN "false" ELSE "true"
Str(v) ==
    IF v = "null" THEN "''"
    ELSE IF v = "false" THEN "'False'"
    ELSE IF v = "true" THEN "'True'"
    ELSE v

\* cfg[k] = value: the key keeps its place in the dict.
Assign_Reinsert(cfg, k, value) ==
    SelectSeq(cfg, LAMBDA e : e.k # k) \o <<[k |-> k, v |-> value]>>
Assign(cfg, k, value) ==
    [i \in DOMAIN cfg |-> IF cfg[i].k = k THEN [k |-> k, v |-> value] ELSE cfg[i]]

\* The value cfg holds for key k.
Lookup(cfg, k) == (CHOOSE e \in Range(cfg) : e.k = k).v

\* normalize_visual_config, the loop over raw.items().
RECURSIVE NormalizeItems(_, _)
NormalizeItems(cfg, items) ==
    IF items = << >> THEN cfg
    ELSE LET k == Head(items).k
             v == Head(items).v
         IN  IF k \notin {e.k : e \in Range(cfg)} THEN NormalizeItems(cfg, Tail(items))
             ELSE IF Lookup(cfg, k) \in {"true", "false"}
                  THEN NormalizeItems(Assign(cfg, k, Bool(v)), Tail(items))
                  ELSE NormalizeItems(Assign(cfg, k, Str(v)), Tail(items))

\* normalize_visual_config: a copy of the defaults, the known keys of raw
\* over it, and the mode checked.
normalize_visual_config(defaults, raw) ==
    LET cfg == NormalizeItems(defaults, raw) IN
      IF Lookup(cfg, "ativo_mode") \notin {"'direct'", "'compose'"}
      THEN Assign(cfg, "ativo_mode", "'direct'")
      ELSE cfg

\* json.dumps(cfg, sort_keys=True): the items in the order of their keys.
SortKeys(cfg) ==
    LET order == <<"ativo_mode", "only_enabled", "pu_cols">> IN
      [i \in DOMAIN order |-> [k |-> order[i], v |-> Lookup(cfg, order[i])]]

\* build_script_from_visual_config: the text is the template with the JSON
\* dump and the repr of the normalised config.
build_script_from_visual_config(defaults, raw) ==
    LET cfg == normalize_visual_config(defaults, raw) IN
      [cfg_json |-> SortKeys(cfg), cfg_py |-> cfg]

\* build_script_from_processing_config on {"mode": "visual", "visual_config": raw}.
build_script_from_processing_config(defaults, raw) ==
    LET normalized == [mode |-> "visual",
                       visual_config |-> normalize_visual_config(defaults, raw)] IN
      [script |-> build_script_from_visual_config(defaults, normalized.visual_config),
       normalized |-> normalized]

\* cfg = dict(DEFAULT_VISUAL_CONFIG): the call changes a copy, the dict of
\* the module is left as it was.
DefaultsAfter(defaults, cfg) == defaults

BuildFrame ==
    <<now, runs, job, slotInitKey, slotList, tasks, revoked, acts, portal, missing, sweeps,
      hist>>

\* The first config is compiled.
BuildFirst ==
    /\ call.op = "configs"
    /\ LET r == build_script_from_processing_config(call.defaults, call.raw1) IN
         call' = [call EXCEPT !.op = "first", !.r1 = r,
                    !.defaults = DefaultsAfter(@, r.normalized.visual_config)]
    /\ channel' = {}
    /\ UNCHANGED BuildFrame

\* The second config is compiled.
BuildSecond ==
    /\ call.op = "first"
    /\ LET r == build_script_from_processing_config(call.defaults, call.raw2) IN
         call' = [call EXCEPT !.op = "second", !.r2 = r,
                    !.defaults = DefaultsAfter(@, r.normalized.visual_config)]
    /\ channel' = {}
    /\ UNCHANGED BuildFrame

InitBuild ==
    /\ slotInitKey = FALSE
    /\ slotList = << >>
    /\ revoked = {}
    /\ channel = {}
    /\ acts = [a \in Actors |-> IdleActor]
    /\ sweeps = [s \in SweepIds |-> IdleSweep]
    /\ missing = {}
    /\ hist = [calls |-> 0, cancelled |-> {}, execs |-> 0, nproc |-> 0,
               requeued |-> [r \in RunIds |-> NoTime], batch |-> NULL]
    /\ now = 0
    /\ job = NoJobSelection
    /\ portal = << >>
    /\ runs = [r \in RunIds |-> NoDoc]
    /\ tasks = [t \in TaskIds |-> NoTask]
    /\ \E raw1, raw2 \in RawConfigs :
         call = [op |-> "configs", defaults |-> DEFAULT_VISUAL_CONFIG,
                 raw1 |-> raw1, raw2 |-> raw2, r1 |-> NULL, r2 |-> NULL]

NextBuild ==
    \/ BuildFirst
    \/ BuildSecond

SpecBuild == InitBuild /\ [][NextBuild]_vars

\* Two raw configs are equal as dicts: the same items, in any order.
EqualConfigs(raw1, raw2) == Range(raw1) = Range(raw2)

\* C24: two calls of build_script_from_processing_config with equal visual
\* configs return the same script text and the same normalised config,
\* whatever the order of the keys and whatever was compiled before.
C24_CompilerDeterministic ==
    (call.op = "second" /\ EqualConfigs(call.raw1, call.raw2)) =>
        /\ call.r1.script = call.r2.script
        /\ call.r1.normalized = call.r2.normalized

\* Two configs with the same two known keys in different order, which are
\* not the defaults, have been compiled to one script.
C24_Witness ==
    /\ call.op = "second"
    /\ EqualConfigs(call.raw1, call.raw2) /\ call.raw1 # call.raw2
    /\ {e.k : e \in Range(call.raw1)} = {"pu_cols", "only_enabled"}
    /\ call.r1.normalized.visual_config # DEFAULT_VISUAL_CONFIG
    /\ call.r1.script = call.r2.script

\* Run r is stale at time t: running without a heartbeat for more than
\* ZombieMinutes, or queued and created more than QueueMinutes ago.
StillStale(doc, t) ==
    \/ doc.status = "running" /\ doc.updated_at < ZombieCutoff(t)
    \/ doc.status = "queued" /\ doc.created_at < QueueCutoff(t)

\* C25: a save of cleanup_stale_runs changes only a run that is still stale
\* when the save is made; a run that ended or was refreshed since the query
\* keeps its status, finished_at, logs and files.
C25_SweepWriteHarmless ==
    [][\A s \in SweepIds :
         (sweeps[s].found # << >> /\ sweeps'[s].found = Tail(sweeps[s].found)) =>
            LET r == Head(sweeps[s].found).run IN
              ~StillStale(runs[r], now) =>
                 /\ runs'[r].status = runs[r].status
                 /\ runs'[r].finished_at = runs[r].finished_at
                 /\ runs'[r].logs = runs[r].logs
                 /\ runs'[r].files = runs[r].files
      ]_vars

\* How many times token tok is in the pool list.
InPool(tok) == Cardinality({i \in DOMAIN slotList : slotList[i] = tok})

\* The tasks that hold token tok and have not ended.
ExecutingHolders(tok) ==
    {t \in TaskIds : Holding(t) /\ tasks[t].slot_token = tok
                     /\ tasks[t].pc \notin {"done", "failed"}}

\* C26: once the pool is filled, each of the N tokens is in the list once
\* or with one task that has not ended, never both and never twice; and a
\* task that took no token has pushed none.
C26_TokensConserved ==
    /\ PoolFilled =>
          \A i \in DOMAIN SlotTokens :
              InPool(SlotTokens[i]) + Cardinality(ExecutingHolders(SlotTokens[i])) = 1
    /\ \A t \in TaskIds :
          tasks[t].slot_token = NoToken => ~tasks[t].released

\* C27: the save that stores the dispatched task id, in trigger_run and in
\* retry_run, changes only celery_task_id of the stored run: what the worker
\* wrote since the handler's copy was made is still there.
C27_SaveIdOnlySetsTaskId ==
    [][\A a \in ReqIds :
         (acts[a].pc = "save_id" /\ acts'[a].pc = "idle") =>
            runs'[acts[a].run] = [runs[acts[a].run] EXCEPT !.celery_task_id = acts[a].task]
      ]_vars

(***************************************************************************)
(* Specification of the tail of scrape_task: the connector returns or      *)
(* raises, downloads are captured, the session ends and the post-scrape    *)
(* processing chain is entered or skipped.                                 *)
(***************************************************************************)
RunningRun(t) ==
    [NewRun(0) EXCEPT !.status = "running", !.started_at = 0, !.celery_task_id = t]

InitChain ==
    /\ InitBase
    /\ now = 0
    /\ \E on \in BOOLEAN :
         job = [NoJobSelection EXCEPT !.connector = "jpmorgan", !.enable_processing = on,
                                      !.processing_script = "v1"]
    /\ portal \in Portals \cup {<< >>, <<"data.csv">>}
    /\ runs = [r \in RunIds |-> IF r = 1 THEN RunningRun(1) ELSE NoDoc]
    /\ tasks = [t \in TaskIds |->
                 IF t = 1 THEN [QueuedTask(1) EXCEPT !.pc = "scrape", !.hb = 0]
                 ELSE NoTask]

NextChain ==
    \/ \E t \in TaskIds :
         \/ TaskScrape(t)
         \/ TaskScrapeRaises(t)
         \/ TaskCapture(t)
         \/ TaskFinally(t)
         \/ TaskExcept(t)
         \/ TaskPostSkip(t)
         \/ TaskPostBegin(t)
         \/ TaskPostEnd(t)
    \/ \E a \in Actors :
         \/ RapsRead(a)
         \/ ProcStep(a)

SpecChain == InitChain /\ [][NextChain]_vars

\* C28: the post-scrape processing chain runs only for a run whose scrape
\* succeeded: once the connector has returned failure and the run is failed,
\* no processor is executed and processing_status stays not_required.
C28_ChainOnlyAfterSuccess ==
    \A t \in TaskIds :
        (tasks[t].result = "failure" /\ runs[tasks[t].run].status = "failed") =>
            /\ hist.execs = 0
            /\ runs[tasks[t].run].processing_status = "not_required"
            /\ acts[TaskActor(t)].kind = "idle"

(***************************************************************************)
(* Specification of a run's way to a final status: one run has been saved  *)
(* as queued by trigger_run; its task may be picked up or lost, executes   *)
(* and ends or is killed by the time limit; the clock advances and         *)
(* cleanup_stale_runs runs again and again.  The clock reads LiveNow       *)
(* throughout and a passing minute makes every stored timestamp one minute *)
(* older instead; a timestamp is aged only as far as the oldest age a      *)
(* comparison of the code tells apart.                                     *)
(***************************************************************************)
LiveNow == QueueMinutes + 1

LiveRun == 1
LiveTask == 1

\* Timestamp s a minute later, told apart up to an age of keep minutes.
Aged(s, keep) == IF s = NoTime THEN NoTime ELSE Max(s - 1, LiveNow - keep)

\* A run document a minute later: created_at is compared with the queue
\* cutoff, updated_at with the zombie cutoff, the other two with nothing.
AgedDoc(doc) ==
    IF doc = NoDoc THEN NoDoc
    ELSE [doc EXCEPT !.created_at = Aged(@, QueueMinutes + 1),
                     !.updated_at = Aged(@, ZombieMinutes + 1),
                     !.started_at = Aged(@, 0),
                     !.finished_at = Aged(@, 0)]

\* A minute passes (get_now() a minute later in every comparison).
TickLive ==
    /\ runs' = [r \in RunIds |-> AgedDoc(runs[r])]
    /\ tasks' = [t \in TaskIds |-> [tasks[t] EXCEPT !.hb = Aged(@, HeartbeatMinutes)]]
    /\ acts' = [a \in Actors |-> [acts[a] EXCEPT !.doc = AgedDoc(@)]]
    /\ sweeps' = [s \in SweepIds |->
                    [sweeps[s] EXCEPT !.found =
                        [i \in DOMAIN @ |-> [@[i] EXCEPT !.doc = AgedDoc(@)]]]]
    /\ channel' = {}
    /\ UNCHANGED <<now, job, SlotVars, revoked, portal, missing, call, hist>>

\* time_limit=1800: the worker process executing the task is killed; no
\* except or finally block of the task runs and the heartbeat stops.
TaskTimeLimit(t) ==
    /\ tasks[t].pc \in Executing
    /\ tasks' = [tasks EXCEPT ![t].pc = "killed", ![t].hb = NoTime]
    /\ channel' = {}
    /\ UNCHANGED <<now, runs, job, SlotVars, revoked, acts, portal, missing, call, sweeps, hist>>

\* What trigger_run has done when the specification starts: the first save
\* only (the dispatch failed), or all of the handler.
LiveSeeds == {"saved", "returned"}

InitLive ==
    /\ slotInitKey = FALSE
    /\ slotList = << >>
    /\ revoked = {}
    /\ channel = {}
    /\ sweeps = [s \in SweepIds |-> IdleSweep]
    /\ missing = {}
    /\ call = NoCall
    /\ hist = [calls |-> 0, cancelled |-> {}, execs |-> 0, nproc |-> 0,
               requeued |-> [r \in RunIds |-> NoTime], batch |-> NULL]
    /\ now = LiveNow
    /\ job = [NoJobSelection EXCEPT !.connector = "jpmorgan"]
    /\ portal = <<"data.csv">>
    /\ \E seed \in LiveSeeds :
         /\ runs = [r \in RunIds |->
                      IF r # LiveRun THEN NoDoc
                      ELSE [NewRun(LiveNow) EXCEPT !.celery_task_id =
                               IF seed = "returned" THEN LiveTask ELSE NoId]]
         /\ tasks = [t \in TaskIds |->
                      IF t = LiveTask /\ seed # "saved" THEN QueuedTask(LiveRun) ELSE NoTask]
         /\ acts = [a \in Actors |-> IdleActor]

\* A step of the code of task t once a worker executes it.
TaskRuns(t) ==
    \/ TaskSetRunning(t)
    \/ TaskAcquireSkip(t)
    \/ TaskOpenSession(t)
    \/ TaskOpenSessionRaises(t)
    \/ TaskScrape(t)
    \/ TaskScrapeRaises(t)
    \/ TaskCapture(t)
    \/ TaskFinally(t)
    \/ TaskExcept(t)
    \/ TaskPostSkip(t)

\* A step of the periodic sweep.
SweepStep(s) ==
    \/ SweepZombieQuery(s)
    \/ SweepZombieSave(s)
    \/ SweepStuckQuery(s)
    \/ SweepStuckSave(s)
    \/ SweepReturn(s)

NextLive ==
    \/ TickLive
    \/ TaskStart(LiveTask)
    \/ Heartbeat(LiveTask)
    \/ TaskRuns(LiveTask)
    \/ TaskTimeLimit(LiveTask)
    \/ \E s \in SweepIds : SweepStep(s)

SpecLive == InitLive /\ [][NextLive]_vars

\* Time passes, the sweep is started again and again and runs to its end,
\* and a task that a worker executes goes on until it ends or is killed.
LiveFairness ==
    /\ WF_vars(TickLive)
    /\ \A s \in SweepIds : WF_vars(SweepStep(s))
    /\ WF_vars(TaskRuns(LiveTask) \/ TaskTimeLimit(LiveTask))

SpecLiveFair == SpecLive /\ LiveFairness

\* C29: every run eventually reaches status success or failed: a run that
\* is queued or running does not stay so forever, provided the periodic
\* sweep keeps running and every task ends or is killed by its time limit.
C29_RunReachesFinalStatus ==
    (runs[LiveRun].status \in {"queued", "running"})
        ~> (runs[LiveRun].status \in {"success", "failed"})

\* The task was killed while the run was running, and the sweep has failed
\* the run as a zombie.
C29_Witness ==
    /\ tasks[LiveTask].pc = "killed"
    /\ runs[LiveRun].status = "failed"
    /\ runs[LiveRun].error_summary = "Zombie execution detected (Heartbeat lost)"

(***************************************************************************)
(* FileProcessorService._build_wrapped_script (core/services/             *)
(* file_processor.py).  A script is the sequence of its symbols: words,    *)
(* blanks " " and line ends "\n"; symbols that follow each other without a *)
(* blank between them are one word of the text.                            *)
(***************************************************************************)
\* Lines a script is made of.
MaxLines == 2

\* The lines the scripts under study are written with.
ScriptLines ==
    { <<"import", " ", "math">>,
      <<" ", "import", " ", "math">>,
      <<"importlib.reload(m)">>,
      <<"from", " ", "m", " ", "import", " ", "x">>,
      <<"def", " ", "f():">>,
      <<"if", " ", "__name__", "==", "'__main__':">>,
      <<"df", "=", "df_input">>,
      <<"t", "aba", "=", "1">>,
      <<"return", " ", "df">>,
      <<"#", " ", "import", " ", "x">>,
      << >>,
      <<" ">> }

RECURSIVE JoinLines(_)
\* The text whose lines are ls, a line end between two lines.
JoinLines(ls) ==
    IF ls = << >> THEN << >>
    ELSE IF Len(ls) = 1 THEN ls[1]
    ELSE ls[1] \o <<"\n">> \o JoinLines(Tail(ls))

Scripts == {JoinLines(ls) : ls \in UNION {[1..n -> ScriptLines] : n \in 0..MaxLines}}

\* \s of the regular expression and of str.rstrip()
Whitespace == {" ", "\n"}

RECURSIVE SkipWhile(_, _, _)
\* The first position from i on whose symbol is not in set (or Len(s) + 1).
SkipWhile(s, i, set) ==
    IF i <= Len(s) /\ s[i] \in set THEN SkipWhile(s, i + 1, set) ELSE i

\* s[i] exists and is the symbol w.
At(s, i, w) == i <= Len(s) /\ s[i] = w

\* s[i] exists and is white space.
WsAt(s, i) == i <= Len(s) /\ s[i] \in Whitespace

\* \s*(import\s+|from\s+\S+\s+import\s+|def\s+|if\s+__name__\s*==) at i
PatternAt(s, i) ==
    LET j == SkipWhile(s, i, Whitespace) IN
      \/ At(s, j, "import") /\ WsAt(s, j + 1)
      \/ At(s, j, "def") /\ WsAt(s, j + 1)
      \/ /\ At(s, j, "from") /\ WsAt(s, j + 1)
         /\ LET k == SkipWhile(s, j + 1, Whitespace)
                m == SkipWhile(s, k, {s[x] : x \in 1..Len(s)} \ Whitespace)
                n == SkipWhile(s, m, Whitespace)
            IN  m > k /\ n > m /\ At(s, n, "import") /\ WsAt(s, n + 1)
      \/ /\ At(s, j, "if") /\ WsAt(s, j + 1)
         /\ LET k == SkipWhile(s, j + 1, Whitespace) IN
              /\ At(s, k, "__name__")
              /\ At(s, SkipWhile(s, k + 1, Whitespace), "==")

\* re.search(r"(^|\n)\s*(...)", script) on a non-empty script
_is_full_script(script) ==
    /\ script # << >>
    /\ \E i \in 1..Len(script) :
         /\ i = 1 \/ script[i - 1] = "\n"
         /\ PatternAt(script, i)

\* The names that _should_force_low_code looks for anywhere in the text.
Markers ==
    {"VISUAL_BUILDER_", "df_input", "arquivo", "aba", "carteira", "original_dir",
     "processado_dir"}

\* any(m in s for m in markers)
_should_force_low_code_Never(script) == FALSE
_should_force_low_code(script) == \E i \in 1..Len(script) : script[i] \in Markers

RECURSIVE Rstrip(_, _)
\* str.rstrip(chars)
Rstrip(s, set) ==
    IF s # << >> /\ s[Len(s)] \in set THEN Rstrip(SubSeq(s, 1, Len(s) - 1), set) ELSE s

\* str.strip(chars)
Strip(s, set) ==
    LET r == Rstrip(s, set) IN SubSeq(r, SkipWhile(r, 1, set), Len(r))

\* The line of s that starts at i, without its line end, is not blank.
LineHasText(s, i) ==
    LET e == SkipWhile(s, i, {s[x] : x \in 1..Len(s)} \ {"\n"}) IN
      \E x \in i..(e - 1) : s[x] \notin Whitespace

RECURSIVE IndentFrom(_, _)
\* textwrap.indent(text, "    ") from position i, a line start, on.
IndentFrom(s, i) ==
    IF i > Len(s) THEN << >>
    ELSE LET e == SkipWhile(s, i, {s[x] : x \in 1..Len(s)} \ {"\n"})
             last == IF e <= Len(s) THEN e ELSE Len(s)
         IN  (IF LineHasText(s, i) THEN <<"    ">> ELSE << >>)
               \o SubSeq(s, i, last) \o IndentFrom(s, last + 1)

\* The context of the call: the run the script is executed for.
WrapContext == "run-1"

\* _build_preamble_and_context: imports and helpers, the context values, the
\* Portuguese aliases; every line ends with a line end.
_build_preamble_and_context(context) ==
    <<"<imports and helpers>", "\n", "# Auto-generated context", "\n",
      "run_id = ", context, "\n", "# Aliases em portugues", "\n">>

AdvancedHeader == <<"\n", "# User script (advanced mode)", "\n">>
LowCodeHeader == <<"\n", "# User script (low-code mode)", "\n">>
LoadInput == "def _load_input_dataframe(arquivo, aba): ..."
WrapperDef == "def process_auto_generated(arquivo, aba, carteira, df_input):"
MainAutoSave == "if __name__ == '__main__': load input, call, auto-save"

_build_wrapped_script(script, context) ==
    LET preamble == _build_preamble_and_context(context)
        normalized_script == Rstrip(script, Whitespace) \o <<"\n">>
        stripped == Strip(normalized_script, {"\n"})
        user_body == IF stripped = << >> THEN <<"return", " ", "None">> ELSE stripped
        indented_body == IndentFrom(user_body, 1)
        auto_wrapper == <<LoadInput, "\n", "\n", WrapperDef, "\n">> \o indented_body
                          \o <<"\n", "\n", MainAutoSave, "\n">>
    IN  IF _is_full_script(normalized_script) /\ ~_should_force_low_code(normalized_script)
        THEN preamble \o AdvancedHeader \o normalized_script
        ELSE preamble \o LowCodeHeader \o auto_wrapper

(***************************************************************************)
(* Specification of the wrapper: a script is given, the wrapper is built.  *)
(***************************************************************************)
WrapFrame ==
    <<now, runs, job, slotInitKey, slotList, tasks, revoked, acts, portal, missing, sweeps, hist>>

BuildWrapped ==
    /\ call.op = "wrap"
    /\ call' = [call EXCEPT !.op = "wrapped",
                            !.out = _build_wrapped_script(call.script, WrapContext)]
    /\ channel' = {}
    /\ UNCHANGED WrapFrame

InitWrap ==
    /\ slotInitKey = FALSE
    /\ slotList = << >>
    /\ revoked = {}
    /\ channel = {}
    /\ acts = [a \in Actors |-> IdleActor]
    /\ sweeps = [s \in SweepIds |-> IdleSweep]
    /\ missing = {}
    /\ hist = [calls |-> 0, cancelled |-> {}, execs |-> 0, nproc |-> 0,
               requeued |-> [r \in RunIds |-> NoTime], batch |-> NULL]
    /\ now = 0
    /\ job = NoJobSelection
    /\ portal = << >>
    /\ runs = [r \in RunIds |-> NoDoc]
    /\ tasks = [t \in TaskIds |-> NoTask]
    /\ \E script \in Scripts : call = [op |-> "wrap", script |-> script, out |-> << >>]

NextWrap == BuildWrapped

SpecWrap == InitWrap /\ [][NextWrap]_vars

RECURSIVE SplitLines(_)
\* The lines of a text, without their line ends.
SplitLines(s) ==
    IF s = << >> THEN << >>
    ELSE LET e == SkipWhile(s, 1, {s[x] : x \in 1..Len(s)} \ {"\n"}) IN
           <<SubSeq(s, 1, e - 1)>> \o SplitLines(SubSeq(s, e + 1, Len(s)))

\* A line that is an import, a from-import, a def or an entry-point guard.
StructureLine(line) ==
    \/ Len(line) >= 1 /\ line[1] \in {"import", "def"}
           /\ (Len(line) = 1 \/ line[2] = " ")
    \/ Len(line) >= 6 /\ line[1] = "from" /\ line[2] = " " /\ line[3] # " "
           /\ line[4] = " " /\ line[5] = "import" /\ line[6] = " "
    \/ Len(line) >= 4 /\ line[1] = "if" /\ line[2] = " " /\ line[3] = "__name__"
           /\ line[4] = "=="

\* The script has a line at the top level (no indentation) that is one.
TopLevelStructure(script) ==
    \E i \in DOMAIN SplitLines(script) : StructureLine(SplitLines(script)[i])

\* The script has a line that is one after its indentation, if any.
SomeStructure(script) ==
    \E i \in DOMAIN SplitLines(script) :
        StructureLine(Strip(SplitLines(script)[i], {" "}))

\* The symbol w occurs in the text.
Occurs(w, s) == \E i \in 1..Len(s) : s[i] = w

\* The output is in advanced mode: the preamble, the header and then body,
\* and no process_auto_generated wrapper.
AdvancedWith(out, body) ==
    /\ out = _build_preamble_and_context(WrapContext) \o AdvancedHeader \o body
    /\ ~Occurs(WrapperDef, out)

\* The output wraps body, every line indented, as process_auto_generated,
\* between the input loader and the block that calls it and saves its result.
WrappedWith(out, body) ==
    /\ out = _build_preamble_and_context(WrapContext) \o LowCodeHeader
               \o <<LoadInput, "\n", "\n", WrapperDef, "\n">>
               \o IndentFrom(body, 1) \o <<"\n", "\n", MainAutoSave, "\n">>
    /\ ~Occurs("# User script (advanced mode)", out)

\* C30, as stated: the script runs in advanced mode, unmodified after the
\* preamble, exactly when it has top-level structure of its own; every other
\* script is wrapped as the body of process_auto_generated.
C30_AdvancedIffStructure ==
    call.op = "wrapped" =>
        IF TopLevelStructure(call.script)
        THEN AdvancedWith(call.out, call.script)
        ELSE WrappedWith(call.out, Strip(call.script, Whitespace))

\* C30, amended: the script runs in advanced mode exactly when one of its
\* lines is, after its indentation, an import, a from-import, a def or an
\* entry-point guard and the text contains none of the names the wrapper
\* provides; the script then follows the preamble with its trailing white
\* space replaced by one line end.  Every other script is wrapped, without
\* its trailing white space and surrounding line ends, as the body of
\* process_auto_generated ("return None" when nothing is left).
C30_AdvancedIffStructureNoMarker ==
    call.op = "wrapped" =>
        LET script == call.script
            text == Rstrip(script, Whitespace)
            body == Strip(text, {"\n"})
        IN  IF SomeStructure(script) /\ \A m \in Markers : ~Occurs(m, script)
            THEN AdvancedWith(call.out, text \o <<"\n">>)
            ELSE WrappedWith(call.out,
                             IF body = << >> THEN <<"return", " ", "None">> ELSE body)

\* A script with an import that also uses df_input has been wrapped, and a
\* script with an import and no such name has not.
C30_Witness ==
    /\ call.op = "wrapped"
    /\ call.script = <<"import", " ", "math", "\n", "df", "=", "df_input">>
    /\ Occurs(WrapperDef, call.out)

====
